---- MODULE Spec2Model ----
(***************************************************************************)
(* Settings resolution of PowerGenome (powergenome/util.py):              *)
(*   update_dictionary, build_scenario_settings, apply_all_tag_to_regions. *)
(* Python objects live in a heap so that sharing of mutable dicts and      *)
(* lists between the caller's settings and the resolved settings objects   *)
(* is part of the state.                                                   *)
(***************************************************************************)
EXTENDS Integers, Sequences, FiniteSets, TLC

VARIABLES
  heap,      \* address -> Python object (dict or list)
  nxt,       \* number of objects allocated by dict displays ({} and {k: v})
  mpc,       \* update_dictionary driver: "idle", "call", "done"
  md,        \* argument d of update_dictionary (a value)
  mu,        \* argument u of update_dictionary (a value)
  mres,      \* value returned by update_dictionary
  base0,     \* structure of d when update_dictionary was called
  over0,     \* structure of u when update_dictionary was called
  pc,        \* position in build_scenario_settings and in its caller
  scenario_definitions,  \* rows of the scenario definitions table
  case_id_description,   \* rows <<case id, case name>> of the csv file
  case_id_name_map,      \* case id -> case name, <<>> until the file is read
  model_planning_period_dict,  \* <<start_year, year>> in key order
  yi,        \* index of the planning year of the running iteration
  todo,      \* case ids of the year still to expand, in order
  case_id,   \* case id of the running iteration
  failed,    \* category column whose override raised the conflict
  cur_settings,          \* _settings
  modified_settings,     \* keys written by the case's category overrides
  new_param_warn_list,   \* (category, value) pairs already warned about
  warnings,  \* the warnings logged so far
  scenario_settings,     \* year -> case id -> resolved settings
  err,       \* the exception that ended the call
  pre,       \* structure of the caller's settings when the call started
  applied,   \* history: flattened keys of the case's applied overrides
  returned,  \* history: structure of each resolved object at the return
  mutated,   \* history: (year, case id) whose object the caller mutated
  tpc,       \* apply_all_tag_to_regions driver: "idle", "call", "returned",
             \* "raised", and "again", "raised again" for the call on the
             \* settings the first call returned
  model_regions,         \* settings["model_regions"]
  renewables_clusters,   \* settings["renewables_clusters"], changed in place
  clusters0, \* settings["renewables_clusters"] at the first call
  first_out, \* settings["renewables_clusters"] when the first call returned
  tag_err,   \* the tag whose absence raised KeyError
  tag_warnings,          \* identity keys warned about (several 'all' tags)
  cpc,       \* check_settings driver: "idle", "call", "returned", "raised",
             \* and "again", "raised again" for the call on the result
  csettings, \* the settings dict given to check_settings, changed in place
  csettings0,            \* its structure at the first call
  cfirst,    \* its structure when the first call ended
  cerr,      \* the exception that ended check_settings
  cwarnings, \* the warnings logged by check_settings, with the run
  rpc,       \* remove_leading_zero driver: "idle", "call", "done"
  id,        \* argument of remove_leading_zero
  rid,       \* value returned by remove_leading_zero
  upc,       \* driver of the calls of the other functions of util.py:
             \* "idle", "call", then "returned" or "raised", then "again"
  uarg,      \* the arguments as the caller gave them
  ucur,      \* the caller's argument object now (changed in place or not)
  uout,      \* what the call returned, wrote or raised
  ulog       \* the warnings logged

mergeVars == <<heap, nxt, mpc, md, mu, mres, base0, over0>>

buildVars ==
  <<pc, scenario_definitions, case_id_description, case_id_name_map, model_planning_period_dict,
    yi, todo, case_id, failed, cur_settings, modified_settings,
    new_param_warn_list, warnings, scenario_settings, err, pre, applied,
    returned, mutated>>

tagVars ==
  <<tpc, model_regions, renewables_clusters, clusters0, first_out, tag_err,
    tag_warnings>>

checkVars == <<cpc, csettings, csettings0, cfirst, cerr, cwarnings>>

idVars == <<rpc, id, rid>>

utilVars == <<upc, uarg, ucur, uout, ulog>>

vars == <<mergeVars, buildVars, tagVars, checkVars, idVars, utilVars>>

-----------------------------------------------------------------------------
(* Structural values (what == compares in Python): scalars, lists, dicts.  *)

TInt(n) == [t |-> "int", n |-> n, s |-> "", f |-> <<>>, items |-> <<>>]
TStr(s) == [t |-> "str", n |-> 0, s |-> s, f |-> <<>>, items |-> <<>>]
TList(items) == [t |-> "list", n |-> 0, s |-> "", f |-> <<>>, items |-> items]
TMap(f) == [t |-> "map", n |-> 0, s |-> "", f |-> f, items |-> <<>>]
TNone == [t |-> "none", n |-> 0, s |-> "", f |-> <<>>, items |-> <<>>]

(* Heap values: a scalar, or a reference to a dict or list object.         *)
VInt(n) == [t |-> "int", n |-> n, s |-> "", a |-> <<>>]
VStr(s) == [t |-> "str", n |-> 0, s |-> s, a |-> <<>>]
VRef(a) == [t |-> "ref", n |-> 0, s |-> "", a |-> a]
VNone == [t |-> "none", n |-> 0, s |-> "", a |-> <<>>]

MapObj(f) == [kind |-> "map", f |-> f, items |-> <<>>]
ListObj(items) == [kind |-> "list", f |-> <<>>, items |-> items]

\* isinstance(v, collections.abc.Mapping)
IsMapping(h, v) == v.t = "ref" /\ h[v.a].kind = "map"

IsList(h, v) == v.t = "ref" /\ h[v.a].kind = "list"

\* d[k] = v
SetField(h, a, k, v) == [h EXCEPT ![a].f = (k :> v) @@ @]

\* the value a tree node takes when its object is stored at address a
Place(T, a) ==
  IF T.t \in {"map", "list"} THEN VRef(a)
  ELSE [t |-> T.t, n |-> T.n, s |-> T.s, a |-> <<>>]

RECURSIVE Nodes(_, _)
\* the objects of the tree T, T itself stored at address a and the value of
\* key k of a dict stored at the address of the dict extended by k
Nodes(T, a) ==
  IF T.t = "map"
  THEN {<<a, MapObj([k \in DOMAIN T.f |-> Place(T.f[k], Append(a, k))])>>}
       \cup UNION {Nodes(T.f[k], Append(a, k)) : k \in DOMAIN T.f}
  ELSE IF T.t = "list" THEN {<<a, ListObj(T.items)>>}
  ELSE {}

HeapOf(T, a) ==
  LET ns == Nodes(T, a)
  IN [p \in {x[1] : x \in ns} |-> (CHOOSE x \in ns : x[1] = p)[2]]

RECURSIVE Deep(_, _)
\* the structure reachable from value v in heap h
Deep(h, v) ==
  IF v.t = "ref"
  THEN IF h[v.a].kind = "map"
       THEN TMap([k \in DOMAIN h[v.a].f |-> Deep(h, h[v.a].f[k])])
       ELSE TList(h[v.a].items)
  ELSE [t |-> v.t, n |-> v.n, s |-> v.s, f |-> <<>>, items |-> <<>>]

RECURSIVE Reach(_, _)
\* addresses of the objects reachable from value v
Reach(h, v) ==
  IF v.t = "ref"
  THEN {v.a} \cup UNION {Reach(h, h[v.a].f[k]) : k \in DOMAIN h[v.a].f}
  ELSE {}

RECURSIVE SeqOf(_)
\* the keys of a dict in iteration order
SeqOf(S) ==
  IF S = {} THEN <<>>
  ELSE LET x == CHOOSE y \in S : TRUE IN <<x>> \o SeqOf(S \ {x})

Fresh(n) == <<"N", ToString(n)>>

-----------------------------------------------------------------------------
(* update_dictionary(d, u)                                                 *)

RECURSIVE update_dictionary(_, _, _, _)
RECURSIVE UpdateItems(_, _, _, _, _)

\* mutant: dict.update semantics, a nested mapping replaces instead of merging
UpdateItemsShallow(h, n, d, u, ks) ==
  IF ks = <<>> THEN [h |-> h, n |-> n, r |-> d]
  ELSE UpdateItems(SetField(h, d.a, Head(ks), h[u.a].f[Head(ks)]), n, d, u,
                   Tail(ks))

\* the loop "for k, v in u.items()" over the remaining keys ks
UpdateItems(h, n, d, u, ks) ==
  IF ks = <<>> THEN [h |-> h, n |-> n, r |-> d]
  ELSE LET k == Head(ks)
           v == h[u.a].f[k]
       IN IF IsMapping(h, d)
          THEN IF IsMapping(h, v)
               THEN LET has == k \in DOMAIN h[d.a].f
                        h1 == IF has THEN h
                              ELSE (Fresh(n) :> MapObj(<<>>)) @@ h
                        n1 == IF has THEN n ELSE n + 1
                        sub == IF has THEN h[d.a].f[k] ELSE VRef(Fresh(n))
                        rec == update_dictionary(h1, n1, sub, v)
                    IN UpdateItems(SetField(rec.h, d.a, k, rec.r), rec.n, d,
                                   u, Tail(ks))
               ELSE UpdateItems(SetField(h, d.a, k, v), n, d, u, Tail(ks))
          ELSE UpdateItems((Fresh(n) :> MapObj(k :> v)) @@ h, n + 1,
                           VRef(Fresh(n)), u, Tail(ks))

update_dictionary(h, n, d, u) ==
  UpdateItems(h, n, d, u, SeqOf(DOMAIN h[u.a].f))

-----------------------------------------------------------------------------
(* Inputs of update_dictionary: dicts of depth at most three.              *)

MaxInt == 3

Scalars == {TInt(i) : i \in 1..MaxInt}

Leaves == Scalars \cup {TList(<<9>>), TMap(<<>>)}

Maps(keys, vals) == UNION {[D -> vals] : D \in SUBSET keys}

Inner == {TMap(f) : f \in Maps({"y"}, {TInt(MaxInt)})}

Middle == {TMap(f) : f \in Maps({"x", "y"}, Leaves \cup Inner)}

Docs == {TMap(f) : f \in Maps({"a"}, Leaves \cup Middle)}

RECURSIVE Flat(_)
\* the paths of T that end in a value that is not a dict
Flat(T) ==
  UNION {IF T.f[k].t = "map"
         THEN {<<k>> \o p : p \in Flat(T.f[k])}
         ELSE {<<k>>} : k \in DOMAIN T.f}

RECURSIVE At(_, _)
\* the node of T at path p, TNone when the path leaves T
At(T, p) ==
  IF p = <<>> THEN T
  ELSE IF T.t = "map" /\ Head(p) \in DOMAIN T.f THEN At(T.f[Head(p)], Tail(p))
  ELSE TNone

BuildIdle ==
  /\ pc = "idle"
  /\ scenario_definitions = <<>>
  /\ case_id_description = <<>>
  /\ case_id_name_map = <<>>
  /\ model_planning_period_dict = <<>>
  /\ yi = 0
  /\ todo = <<>>
  /\ case_id = 0
  /\ failed = ""
  /\ cur_settings = VNone
  /\ modified_settings = <<>>
  /\ new_param_warn_list = <<>>
  /\ warnings = <<>>
  /\ scenario_settings = <<>>
  /\ err = [kind |-> "", key |-> <<>>, case_id |-> 0]
  /\ pre = TNone
  /\ applied = <<>>
  /\ returned = <<>>
  /\ mutated = <<>>

NoClusters == [kind |-> "absent", items |-> <<>>]

TagsIdle ==
  /\ tpc = "idle"
  /\ model_regions = <<>>
  /\ renewables_clusters = NoClusters
  /\ clusters0 = NoClusters
  /\ first_out = NoClusters
  /\ tag_err = ""
  /\ tag_warnings = <<>>

CheckIdle ==
  /\ cpc = "idle"
  /\ csettings = TNone
  /\ csettings0 = TNone
  /\ cfirst = TNone
  /\ cerr = [kind |-> "", about |-> "", names |-> <<>>]
  /\ cwarnings = <<>>

IdIdle ==
  /\ rpc = "idle"
  /\ id = VNone
  /\ rid = VNone

UtilIdle ==
  /\ upc = "idle"
  /\ uarg = <<>>
  /\ ucur = <<>>
  /\ uout = <<>>
  /\ ulog = <<>>

MergeInit ==
  /\ \E B \in Docs, O \in Docs :
       /\ heap = HeapOf(B, <<"d">>) @@ HeapOf(O, <<"u">>)
       /\ base0 = B
       /\ over0 = O
  /\ nxt = 0
  /\ mpc = "call"
  /\ md = VRef(<<"d">>)
  /\ mu = VRef(<<"u">>)
  /\ mres = VNone
  /\ BuildIdle
  /\ TagsIdle
  /\ CheckIdle
  /\ IdIdle
  /\ UtilIdle

\* r = update_dictionary(d, u)
Merge ==
  /\ mpc = "call"
  /\ LET rec == update_dictionary(heap, nxt, md, mu)
     IN /\ heap' = rec.h
        /\ nxt' = rec.n
        /\ mres' = rec.r
  /\ mpc' = "done"
  /\ UNCHANGED <<md, mu, base0, over0, buildVars, tagVars, checkVars,
               idVars, utilVars>>

MergeNext == Merge

MergeSpec == MergeInit /\ [][MergeNext]_vars

-----------------------------------------------------------------------------
(* build_scenario_settings(settings, scenario_definitions)                 *)

\* the caller's settings dict
Settings == VRef(<<"S">>)

\* the category columns of the scenario definitions table, in column order
Categories == <<"fuel", "tech">>

\* d.get(k), VNone when d has no key k
Get(h, d, k) ==
  IF IsMapping(h, d) /\ k \in DOMAIN h[d.a].f THEN h[d.a].f[k] ELSE VNone

\* bool(v)
Truthy(h, v) ==
  CASE v.t = "ref" -> (DOMAIN h[v.a].f # {} \/ h[v.a].items # <<>>)
    [] v.t = "int" -> v.n # 0
    [] v.t = "str" -> v.s # ""
    [] OTHER -> FALSE

\* "v or {}": VNone stands for the new empty dict
OrEmpty(h, v) == IF Truthy(h, v) THEN v ELSE VNone

\* deepcopy(v): the objects reachable from v copied to addresses under at
deepcopy(h, v, at) ==
  LET Moved(x) == IF x.t = "ref" THEN VRef(at \o x.a) ELSE x
      Copy(o) == [kind |-> o.kind,
                  f |-> [k \in DOMAIN o.f |-> Moved(o.f[k])],
                  items |-> o.items]
  IN [p \in {at \o a : a \in Reach(h, v)} |->
        Copy(h[SubSeq(p, Len(at) + 1, Len(p))])] @@ h

CopyAt(year, c) == <<"C", ToString(year), ToString(c)>>

RECURSIVE flatten(_)
\* list(flatten(T).keys()): the paths to the values of T that are no dicts
flatten(T) ==
  LET RECURSIVE Over(_)
      Over(ks) ==
        IF ks = <<>> THEN <<>>
        ELSE LET k == Head(ks)
                 sub == IF T.f[k].t = "map" THEN flatten(T.f[k]) ELSE << <<>> >>
             IN [i \in 1..Len(sub) |-> <<k>> \o sub[i]] \o Over(Tail(ks))
  IN Over(SeqOf(DOMAIN T.f))

Range(q) == {q[i] : i \in 1..Len(q)}

\* {year: (start_year, year) for ...}: a later pair with the same year
\* replaces the value and keeps the position of the key
RECURSIVE PeriodDict(_, _)
PeriodDict(acc, pairs) ==
  IF pairs = <<>> THEN acc
  ELSE LET q == Head(pairs)
       IN IF \E i \in 1..Len(acc) : acc[i][2] = q[2]
          THEN PeriodDict([i \in 1..Len(acc) |->
                             IF acc[i][2] = q[2] THEN q ELSE acc[i]],
                          Tail(pairs))
          ELSE PeriodDict(Append(acc, q), Tail(pairs))

\* model_periods is a list of [start_year, year] lists, stored item by item
PairsOf(items) ==
  [i \in 1..(Len(items) \div 2) |-> <<items[2 * i - 1], items[2 * i]>>]

\* zip(settings["model_year"], settings["model_first_planning_year"])
ZipYears(ys, fs) ==
  [i \in 1..(IF Len(ys) < Len(fs) THEN Len(ys) ELSE Len(fs)) |->
     <<fs[i], ys[i]>>]

\* the case ids of every row, whatever its year
CaseIdsAnyYear(rows, year, seen) ==
  IF rows = <<>> THEN <<>>
  ELSE SeqOf({rows[i].case_id : i \in 1..Len(rows)})

\* scenario_definitions.query("year==@year")["case_id"].unique()
RECURSIVE CaseIds(_, _, _)
CaseIds(rows, year, seen) ==
  IF rows = <<>> THEN <<>>
  ELSE LET r == Head(rows)
       IN IF r.year = year /\ r.case_id \notin seen
          THEN <<r.case_id>> \o CaseIds(Tail(rows), year, seen \cup {r.case_id})
          ELSE CaseIds(Tail(rows), year, seen)

\* case_id is a key of case_value_dict; where it is not, line 891 raises
\* the KeyError that line 927 catches and the category is skipped
HasCaseValue(rows, year, c) ==
  \E i \in 1..Len(rows) : rows[i].year = year /\ rows[i].case_id = c

\* planning_year_scenario_definitions_dict[category][case_id]
CaseValue(rows, year, category, c) ==
  LET is == {i \in 1..Len(rows) : rows[i].year = year /\ rows[i].case_id = c}
      last == CHOOSE i \in is : \A j \in is : j <= i
  IN rows[last].val[category]

\* settings.get("settings_management", {}).get(year, {}) or {}
planning_year_settings_management(h, year) ==
  OrEmpty(h, Get(h, Get(h, Settings, "settings_management"), ToString(year)))

\* lines 877-884: the deep copy with case_id set and all_cases merged in
BeginCaseOp(st, year, c) ==
  LET h == st.h
      at == CopyAt(year, c)
      s1 == VRef(at \o Settings.a)
      h1 == SetField(deepcopy(h, Settings, at), s1.a, "case_id", VInt(c))
      psm == planning_year_settings_management(h, year)
      rec == IF IsMapping(h, psm) /\ "all_cases" \in DOMAIN h[psm.a].f
             THEN update_dictionary(h1, st.n, s1, Get(h, psm, "all_cases"))
             ELSE [h |-> h1, n |-> st.n, r |-> s1]
  IN [st EXCEPT !.h = rec.h, !.n = rec.n, !.r = rec.r, !.modified = <<>>,
                !.applied = <<>>]

\* planning_year_settings_management.get(category, {}).get(case_value, {}) or {}
NewParameter(h, year, category, case_value) ==
  OrEmpty(h, Get(h, Get(h, planning_year_settings_management(h, year),
                        category), case_value))

\* lines 911-914
SettingsKeys(h, new_parameter) ==
  IF new_parameter = VNone THEN <<>> ELSE flatten(Deep(h, new_parameter))

\* mutant: the assertion compares nothing
NoConflicts(settings_keys, modified) == {}

\* lines 916-919: the positions of the keys whose assertion fails
Conflicts(settings_keys, modified) ==
  {i \in 1..Len(settings_keys) : settings_keys[i] \in Range(modified)}

NoError == [kind |-> "", key |-> <<>>, case_id |-> 0]

\* lines 898-901
ShouldWarn(new_parameter, category, case_value, warned) ==
  new_parameter = VNone /\ <<category, case_value>> \notin Range(warned)

\* lines 890-924: one category column of one case
ApplyCategoryOp(st, year, c, category, rows) ==
  LET case_value == CaseValue(rows, year, category, c)
      new_parameter == NewParameter(st.h, year, category, case_value)
      warn == ShouldWarn(new_parameter, category, case_value, st.warned)
      st1 == IF warn
             THEN [st EXCEPT !.warned = Append(@, <<category, case_value>>),
                             !.log = Append(@, [category |-> category,
                                                value |-> case_value,
                                                case_id |-> c,
                                                year |-> year])]
             ELSE st
      settings_keys == SettingsKeys(st.h, new_parameter)
      bad == Conflicts(settings_keys, st.modified)
      rec == IF new_parameter = VNone THEN [h |-> st.h, n |-> st.n, r |-> st.r]
             ELSE update_dictionary(st.h, st.n, st.r, new_parameter)
  IN IF bad # {}
     THEN [st1 EXCEPT
             !.err = [kind |-> "AssertionError",
                      key |-> settings_keys[CHOOSE i \in bad :
                                              \A j \in bad : i <= j],
                      case_id |-> c],
             !.failed = category]
     ELSE [st1 EXCEPT !.h = rec.h, !.n = rec.n, !.r = rec.r,
                      !.modified = @ \o settings_keys,
                      !.applied = Append(@, [category |-> category,
                                             keys |-> Range(settings_keys),
                                             override |->
                                               Deep(st.h, new_parameter)])]

RECURSIVE ApplyCategories(_, _, _, _, _)
\* lines 885-928: the loop over the category columns, until one raises
ApplyCategories(st, year, c, rows, columns) ==
  IF columns = <<>> \/ st.err # NoError THEN st
  ELSE ApplyCategories(IF HasCaseValue(rows, year, c)
                       THEN ApplyCategoryOp(st, year, c, Head(columns), rows)
                       ELSE st,
                       year, c, rows, Tail(columns))

\* the three fields set only where the merged settings lack them
EndCaseOpDefaults(st, period, c, names) ==
  IF st.err # NoError THEN st
  ELSE LET have == DOMAIN st.h[st.r.a].f
           put(h, k, v) == IF k \in have THEN h ELSE SetField(h, st.r.a, k, v)
           h1 == put(put(st.h, "model_first_planning_year", VInt(period[1])),
                     "model_year", VInt(period[2]))
       IN IF c \in DOMAIN names
          THEN [st EXCEPT !.h = put(h1, "case_name", VStr(names[c]))]
          ELSE [st EXCEPT !.h = h1,
                          !.err = [kind |-> "KeyError",
                                   key |-> <<"case_name">>, case_id |-> c]]

\* the case name looked up with get(): no name, no error
EndCaseOpLenient(st, period, c, names) ==
  IF st.err # NoError THEN st
  ELSE LET h1 == SetField(SetField(st.h, st.r.a, "model_first_planning_year",
                                   VInt(period[1])),
                          st.r.a, "model_year", VInt(period[2]))
       IN [st EXCEPT !.h = SetField(h1, st.r.a, "case_name",
                                    IF c \in DOMAIN names
                                    THEN VStr(names[c]) ELSE VNone)]

\* lines 930-933
EndCaseOp(st, period, c, names) ==
  IF st.err # NoError THEN st
  ELSE LET h1 == SetField(SetField(st.h, st.r.a, "model_first_planning_year",
                                   VInt(period[1])),
                          st.r.a, "model_year", VInt(period[2]))
       IN IF c \in DOMAIN names
          THEN [st EXCEPT !.h = SetField(h1, st.r.a, "case_name",
                                         VStr(names[c]))]
          ELSE [st EXCEPT !.h = h1,
                          !.err = [kind |-> "KeyError",
                                   key |-> <<"case_name">>, case_id |-> c]]

\* lines 877-933: the body of the loop over the case ids of one year
ExpandCaseOp(st, period, c, rows, names) ==
  EndCaseOp(ApplyCategories(BeginCaseOp(st, period[2], c), period[2], c,
                            rows, Categories),
            period, c, names)

\* the local state of the loop body
LoopState(h, n, warned, log) ==
  [h |-> h, n |-> n, r |-> VNone, modified |-> <<>>, applied |-> <<>>,
   warned |-> warned, log |-> log, err |-> NoError, failed |-> ""]

Year(i) == model_planning_period_dict[i][2]

\* s.replace(" ", "_") on the case names of the model
replace_spaces(s) ==
  CASE s = "base case" -> "base_case"
    [] s = "high fuel" -> "high_fuel"
    [] OTHER -> s

\* the csv rows as a dict of id to name, spaces replaced; of two rows with
\* the same id the later one stays
build_case_id_name_map(rows) ==
  [c \in {rows[i][1] : i \in 1..Len(rows)} |->
     LET is == {i \in 1..Len(rows) : rows[i][1] = c}
     IN replace_spaces(rows[CHOOSE i \in is : \A j \in is : j <= i][2])]

\* the two lists used even when model_periods is given
planning_periods_from_lists(h) ==
  LET my == Get(h, Settings, "model_year")
      mf == Get(h, Settings, "model_first_planning_year")
  IN IF IsList(h, my) /\ IsList(h, mf)
     THEN [ok |-> TRUE,
           dict |-> PeriodDict(<<>>, ZipYears(h[my.a].items, h[mf.a].items))]
     ELSE [ok |-> Truthy(h, Get(h, Settings, "model_periods")),
           dict |-> IF Truthy(h, Get(h, Settings, "model_periods"))
                    THEN PeriodDict(<<>>, PairsOf(
                           h[Get(h, Settings, "model_periods").a].items))
                    ELSE <<>>]

\* lines 838-856: model_planning_period_dict, or the KeyError (ok = FALSE)
planning_periods(h) ==
  LET mp == Get(h, Settings, "model_periods")
      my == Get(h, Settings, "model_year")
      mf == Get(h, Settings, "model_first_planning_year")
  IN IF Truthy(h, mp)
     THEN [ok |-> TRUE, dict |-> PeriodDict(<<>>, PairsOf(h[mp.a].items))]
     ELSE IF IsList(h, my) /\ IsList(h, mf)
     THEN [ok |-> TRUE,
           dict |-> PeriodDict(<<>>, ZipYears(h[my.a].items, h[mf.a].items))]
     ELSE [ok |-> FALSE, dict |-> <<>>]

\* lines 838-856
Start ==
  /\ pc = "start"
  /\ LET periods == planning_periods(heap)
     IN /\ model_planning_period_dict' = periods.dict
        /\ pc' = IF periods.ok THEN "names" ELSE "error"
        /\ err' = IF periods.ok THEN NoError
                  ELSE [kind |-> "KeyError", key |-> <<"model_periods">>,
                        case_id |-> 0]
  /\ UNCHANGED <<checkVars, idVars,
               utilVars, tagVars, mergeVars, scenario_definitions,
                 case_id_description, case_id_name_map, yi,
                 scenario_settings, todo,
                 case_id, failed, cur_settings, modified_settings,
                 new_param_warn_list, warnings, pre, applied, returned,
                 mutated>>

\* lines 858-860
ReadNames ==
  /\ pc = "names"
  /\ case_id_name_map' = build_case_id_name_map(case_id_description)
  /\ scenario_settings' = <<>>
  /\ yi' = 1
  /\ pc' = "year"
  /\ UNCHANGED <<checkVars, idVars,
               utilVars, tagVars, mergeVars, scenario_definitions,
                 case_id_description, model_planning_period_dict, todo,
                 case_id, failed, cur_settings, modified_settings,
                 new_param_warn_list, warnings, err, pre, applied, returned,
                 mutated>>

\* lines 861-876: the head of one iteration of the loop over the years
BeginYear ==
  /\ pc = "year"
  /\ yi <= Len(model_planning_period_dict)
  /\ scenario_settings' = (Year(yi) :> <<>>) @@ scenario_settings
  /\ new_param_warn_list' = <<>>
  /\ todo' = CaseIds(scenario_definitions, Year(yi), {})
  /\ pc' = "case"
  /\ UNCHANGED <<checkVars, idVars,
               utilVars, tagVars, mergeVars, scenario_definitions,
                 case_id_description, case_id_name_map,
                 model_planning_period_dict, yi, case_id, failed,
                 cur_settings, modified_settings, warnings, err, pre, applied,
                 returned, mutated>>

\* lines 877-933: one iteration of the loop over the case ids of the year
ExpandCase ==
  /\ pc = "case"
  /\ todo # <<>>
  /\ \E st \in {ExpandCaseOp(LoopState(heap, nxt, new_param_warn_list,
                                        warnings),
                              model_planning_period_dict[yi], Head(todo),
                              scenario_definitions, case_id_name_map)} :
        /\ heap' = st.h
        /\ nxt' = st.n
        /\ cur_settings' = st.r
        /\ modified_settings' = st.modified
        /\ applied' = st.applied
        /\ new_param_warn_list' = st.warned
        /\ warnings' = st.log
        /\ err' = st.err
        /\ failed' = st.failed
        /\ IF st.err = NoError
           THEN /\ scenario_settings' =
                     [scenario_settings EXCEPT ![Year(yi)] =
                        (Head(todo) :> st.r) @@ @]
                /\ pc' = "case"
           ELSE /\ scenario_settings' = scenario_settings
                /\ pc' = "error"
  /\ case_id' = Head(todo)
  /\ todo' = Tail(todo)
  /\ UNCHANGED <<checkVars, idVars,
               utilVars, tagVars, mpc, md, mu, mres, base0, over0,
               scenario_definitions, case_id_description,
                 case_id_name_map, model_planning_period_dict, yi, pre,
                 returned, mutated>>

\* line 876: the case ids of the year are exhausted
EndYear ==
  /\ pc = "case"
  /\ todo = <<>>
  /\ yi' = yi + 1
  /\ pc' = "year"
  /\ UNCHANGED <<checkVars, idVars,
               utilVars, tagVars, mergeVars, scenario_definitions,
                 case_id_description, case_id_name_map,
                 model_planning_period_dict, todo, case_id, failed,
                 cur_settings, modified_settings, new_param_warn_list,
                 warnings, scenario_settings, err, pre, applied, returned,
                 mutated>>

\* line 935
Return ==
  /\ pc = "year"
  /\ yi > Len(model_planning_period_dict)
  /\ pc' = "done"
  /\ returned' = [y \in DOMAIN scenario_settings |->
                    [c \in DOMAIN scenario_settings[y] |->
                       Deep(heap, scenario_settings[y][c])]]
  /\ UNCHANGED <<checkVars, idVars,
               utilVars, tagVars, mergeVars, scenario_definitions,
                 case_id_description, case_id_name_map,
                 model_planning_period_dict, yi, todo, case_id, failed,
                 cur_settings, modified_settings, new_param_warn_list,
                 warnings, scenario_settings, err, pre, applied, mutated>>

\* the caller mutates, in place, a dict or list that a resolved object holds
\* outside its copy of settings_management
Mutate ==
  /\ pc = "done"
  /\ mutated = <<>>
  /\ \E y \in DOMAIN scenario_settings :
       \E c \in DOMAIN scenario_settings[y] :
         LET root == scenario_settings[y][c]
             own == {root.a} \cup
                    UNION {Reach(heap, heap[root.a].f[k]) :
                             k \in DOMAIN heap[root.a].f \ {"settings_management"}}
         IN \E a \in own :
              /\ heap' = IF heap[a].kind = "list"
                         THEN [heap EXCEPT ![a].items = Append(@, 0)]
                         ELSE SetField(heap, a, "touched", VInt(1))
              /\ mutated' = <<y, c>>
  /\ UNCHANGED <<checkVars, idVars,
               utilVars, tagVars, nxt, mpc, md, mu, mres, base0, over0, pc,
                 scenario_definitions, case_id_description, case_id_name_map,
                 model_planning_period_dict, yi, todo, case_id, failed,
                 cur_settings, modified_settings, new_param_warn_list,
                 warnings, scenario_settings, err, pre, applied, returned>>

-----------------------------------------------------------------------------
(* Inputs of build_scenario_settings.                                      *)

MaxRows == 2

CaseNames == <<"baseCase", "highFuel", "lowTech">>

\* an optional key of a dict display
Opt(k, T) == IF T = TNone THEN <<>> ELSE k :> T

\* the override shapes, with leaf v: {a: v}, {a: [v]}, {a: {b: v}},
\* {a: {b: {a: v}}}
Shapes(v) ==
  {TMap("a" :> T) :
     T \in {TInt(v), TList(<<v>>), TMap("b" :> TInt(v)),
            TMap("b" :> TMap("a" :> TInt(v)))}}

\* the settings document: key a, the planning periods and one
\* settings_management slice with the overrides all_cases, fuel/high, tech/high
SettingsDoc(a, all_cases, fuel, tech) ==
  TMap(Opt("a", a) @@ "model_periods" :> TList(<<2025, 2030>>)
       @@ "settings_management" :>
            TMap("2030" :> TMap(Opt("all_cases", all_cases)
                                @@ "fuel" :> TMap("high" :> fuel)
                                @@ "tech" :> TMap("high" :> tech))))

Labels == {"high", "low"}

\* the row of case id c
RowsOf(c) ==
  {[case_id |-> c, year |-> 2030, val |-> [fuel |-> f, tech |-> t]] :
     f \in Labels, t \in Labels}

\* the tables of at most MaxRows rows, row i for case id i
Tables ==
  UNION {{q \in [1..n -> UNION {RowsOf(c) : c \in 1..n}] :
            \A i \in 1..n : q[i].case_id = i} : n \in 0..MaxRows}

MergeIdle ==
  /\ mpc = "idle"
  /\ md = VNone
  /\ mu = VNone
  /\ mres = VNone
  /\ base0 = TNone
  /\ over0 = TNone

Init ==
  /\ \E a \in {TNone, TInt(0)}, all_cases \in {TNone} \cup Shapes(1),
        fuel \in Shapes(2), tech \in Shapes(3) :
       /\ heap = HeapOf(SettingsDoc(a, all_cases, fuel, tech), Settings.a)
       /\ pre = SettingsDoc(a, all_cases, fuel, tech)
  /\ scenario_definitions \in Tables
  /\ case_id_description = [c \in 1..Len(CaseNames) |-> <<c, CaseNames[c]>>]
  /\ case_id_name_map = <<>>
  /\ nxt = 0
  /\ MergeIdle
  /\ TagsIdle
  /\ CheckIdle
  /\ IdIdle
  /\ UtilIdle
  /\ pc = "start"
  /\ model_planning_period_dict = <<>>
  /\ yi = 0
  /\ todo = <<>>
  /\ case_id = 0
  /\ failed = ""
  /\ cur_settings = VNone
  /\ modified_settings = <<>>
  /\ new_param_warn_list = <<>>
  /\ warnings = <<>>
  /\ scenario_settings = <<>>
  /\ err = NoError
  /\ applied = <<>>
  /\ returned = <<>>
  /\ mutated = <<>>

Next ==
  \/ Start
  \/ ReadNames
  \/ BeginYear
  \/ ExpandCase
  \/ EndYear
  \/ Return

Spec == Init /\ [][Next]_vars

UseSpec == Init /\ [][Next \/ Mutate]_vars

-----------------------------------------------------------------------------
RECURSIVE Wholesale(_, _, _)
\* at every key of override O where base B and O do not both hold a
\* mapping, result R holds the value of O as a whole; where both do, the
\* same holds one level down
Wholesale(B, O, R) ==
  \A k \in DOMAIN O.f :
    IF k \in DOMAIN B.f /\ B.f[k].t = "map" /\ O.f[k].t = "map"
    THEN Wholesale(B.f[k], O.f[k], At(R, <<k>>))
    ELSE At(R, <<k>>) = O.f[k]

\* C24: update_dictionary(base, override): for every key of override for
\* which base[key] and override[key] are not both mappings (base[key]
\* absent, a scalar or a sequence, or override[key] a scalar or a sequence)
\* the result at that key equals override[key] as a whole, also when
\* base[key] is a scalar and override[key] a mapping, empty or nested.
WholesaleReplace ==
  mpc = "done" => Wholesale(base0, over0, Deep(heap, mres))

\* an override's mapping has more than no key, or base holds a mapping there
RECURSIVE NoEmptyOverScalar(_, _)
NoEmptyOverScalar(B, O) ==
  \A k \in DOMAIN O.f :
    O.f[k].t = "map" =>
      IF k \in DOMAIN B.f /\ B.f[k].t = "map"
      THEN NoEmptyOverScalar(B.f[k], O.f[k])
      ELSE k \notin DOMAIN B.f \/ DOMAIN O.f[k].f # {}

\* the replacement as a whole, but for an empty mapping over a base value
\* that is no mapping
WholesaleButEmpty ==
  NoEmptyOverScalar(base0, over0) => WholesaleReplace

-----------------------------------------------------------------------------
(* The overrides of the caller's settings as they were when                *)
(* build_scenario_settings was called.                                     *)

\* the override that the value of case c in column category selects
Selected(y, category, c) ==
  At(pre, <<"settings_management", ToString(y), category,
            CaseValue(scenario_definitions, y, category, c)>>)

AllCasesOf(y) == At(pre, <<"settings_management", ToString(y), "all_cases">>)

IsPrefix(p, q) == Len(p) <= Len(q) /\ SubSeq(q, 1, Len(p)) = p

\* the (year, case id) pairs that scenario_settings holds
Resolved ==
  UNION {{<<y, c>> : c \in DOMAIN scenario_settings[y]} :
           y \in DOMAIN scenario_settings}

ColumnPairs ==
  {<<i, j>> \in (1..Len(Categories)) \X (1..Len(Categories)) : i < j}

\* C1: once build_scenario_settings has returned, an in-place mutation of a
\* dict or list reachable from one resolved object leaves every other
\* resolved object as it was returned.
DeepCopyIsolation ==
  (pc = "done" /\ mutated # <<>>) =>
    \A yc \in Resolved :
      yc # mutated =>
        Deep(heap, scenario_settings[yc[1]][yc[2]]) = returned[yc[1]][yc[2]]

\* C2: a case whose two category columns select overrides with a common
\* flattened key fails with the assertion error that names the key and the
\* case id, before the second override is merged; the error is raised only
\* for two overrides that the same case selects.
ConflictDetection ==
  /\ (pc = "error" /\ err.kind = "AssertionError") =>
       /\ err.case_id = case_id
       /\ \E ij \in ColumnPairs :
            /\ Categories[ij[2]] = failed
            /\ err.key \in Flat(Selected(Year(yi), Categories[ij[1]], case_id))
            /\ err.key \in Flat(Selected(Year(yi), failed, case_id))
            /\ At(Deep(heap, cur_settings), err.key) =
                 At(Selected(Year(yi), Categories[ij[1]], case_id), err.key)
       /\ case_id \notin DOMAIN scenario_settings[Year(yi)]
  /\ \A yc \in Resolved :
       \A ij \in ColumnPairs :
         Flat(Selected(yc[1], Categories[ij[1]], yc[2])) \cap
           Flat(Selected(yc[1], Categories[ij[2]], yc[2])) = {}

\* both columns of case 1 select an override that sets a.b: the call has
\* failed naming a.b and case 1
ConflictDetectionWitness ==
  /\ pc = "error"
  /\ err = [kind |-> "AssertionError", key |-> <<"a", "b">>, case_id |-> 1]
  /\ Selected(2030, "fuel", 1) = TMap("a" :> TMap("b" :> TInt(2)))
  /\ Selected(2030, "tech", 1) = TMap("a" :> TMap("b" :> TInt(3)))

\* C3: a key that the year's all_cases override and a category override
\* selected by the case both set holds the category override's value in the
\* returned object (stated for the keys that no other category override of
\* the case reaches, as a prefix or as an extension).
AllCasesThenCategory ==
  pc = "done" =>
    \A yc \in Resolved :
      \A i \in 1..Len(Categories) :
        LET O == Selected(yc[1], Categories[i], yc[2])
        IN \A k \in Flat(O) \cap Flat(AllCasesOf(yc[1])) :
             (\A j \in 1..Len(Categories) :
                j # i =>
                  \A q \in Flat(Selected(yc[1], Categories[j], yc[2])) :
                    ~IsPrefix(q, k) /\ ~IsPrefix(k, q))
             => At(Deep(heap, scenario_settings[yc[1]][yc[2]]), k) = At(O, k)

\* C5: when build_scenario_settings returns, the caller's settings document,
\* with every override under settings_management, is as it was at the call.
CallerSettingsUnchanged ==
  pc = "done" => Deep(heap, Settings) = pre

\* the expansion of case c of period i alone, from the settings as passed in
Alone(i, c) ==
  ExpandCaseOp(LoopState(HeapOf(pre, Settings.a), 0, <<>>, <<>>),
               model_planning_period_dict[i], c, scenario_definitions,
               case_id_name_map)

\* C6: the object returned for a (planning year, case id) is the one that
\* expanding that case alone yields, whichever other cases were expanded
\* before it or after it.
CaseIndependence ==
  pc = "done" =>
    \A i \in 1..Len(model_planning_period_dict) :
      \A c \in DOMAIN scenario_settings[Year(i)] :
        /\ Alone(i, c).err = NoError
        /\ Deep(Alone(i, c).h, Alone(i, c).r) =
             Deep(heap, scenario_settings[Year(i)][c])

\* every leaf of the override that column i selects for case yc is in the
\* resolved object of the case
Holds(yc, i) ==
  LET O == Selected(yc[1], Categories[i], yc[2])
  IN O.t = "map" =>
       \A p \in Flat(O) : At(returned[yc[1]][yc[2]], p) = At(O, p)

\* C29: no category override is silently overwritten by another: whenever
\* build_scenario_settings succeeds for a case, every leaf key path of
\* every category override applied to that case holds that override's value
\* in the resolved object, so that the resolved object does not depend on
\* the order of the category columns; this includes two overrides whose
\* paths overlap only by prefix (one sets a.b, another sets a to a scalar
\* or a sequence).
NoSilentOverwrite ==
  pc = "done" =>
    \A yc \in Resolved : \A i \in 1..Len(Categories) : Holds(yc, i)

\* the two overrides of case yc have a leaf path that is a proper prefix of
\* a leaf path of the other
PrefixOverlap(yc) ==
  \E ij \in (1..Len(Categories)) \X (1..Len(Categories)) :
    LET O == Selected(yc[1], Categories[ij[1]], yc[2])
        P == Selected(yc[1], Categories[ij[2]], yc[2])
    IN /\ O.t = "map" /\ P.t = "map"
       /\ \E p \in Flat(O), q \in Flat(P) : p # q /\ IsPrefix(p, q)

\* without such an overlap, and with one case only, every leaf is there
NoSilentOverwriteOfDisjoint ==
  (pc = "done" /\ Len(scenario_definitions) = 1) =>
    \A yc \in Resolved :
      ~PrefixOverlap(yc) => \A i \in 1..Len(Categories) : Holds(yc, i)

-----------------------------------------------------------------------------
(* apply_all_tag_to_regions.  An entry of renewables_clusters is a dict,   *)
(* here a function from its keys to scalar values.  The list itself is     *)
(* [kind, items]: the key may be absent from the settings or hold None.    *)

identifier_keys == <<"technology", "pref_site", "turbine_type">>

\* the keys an entry can have, in the order sorted() gives them
KeyOrder == <<"bin", "pref_site", "region", "technology", "turbine_type">>

sorted_keys(d) == SelectSeq(KeyOrder, LAMBDA k : k \in DOMAIN d)

\* str(x) of a scalar
str(v) == IF v.t = "int" THEN ToString(v.n) ELSE v.s

\* s.lower() on the region names of the model
lower(s) ==
  CASE s \in {"ALL", "All"} -> "all"
    [] s = "CA" -> "ca"
    [] s = "TX" -> "tx"
    [] OTHER -> s

\* the comparison without lower()
is_all_exact(reg) == reg = "all"

\* reg.lower() == "all"
is_all(reg) == lower(reg) = "all"

\* the loop of lines 151-156: the identifier values joined by "_"
RECURSIVE JoinTech(_, _, _)
JoinTech(d, keys, tech) ==
  IF keys = <<>> THEN tech
  ELSE LET key == Head(keys)
       IN IF key \in Range(identifier_keys)
          THEN JoinTech(d, Tail(keys),
                        (IF tech # "" THEN tech \o "_" ELSE tech)
                          \o str(d[key]))
          ELSE JoinTech(d, Tail(keys), tech)

TechOf(d) == JoinTech(d, sorted_keys(d), "")

\* the locals of the function before the scan
ScanStart ==
  [settings_all |-> <<>>, techs_tagged_w_all |-> <<>>,
   techs_tagged_by_region |-> <<>>, i |-> 1, to_delete |-> <<>>,
   raised |-> "", warned |-> <<>>]

\* the scan step that keeps the first wildcard entry of an identity key as
\* the template
ScanStepFirstTemplate(st, d) ==
  IF "region" \notin DOMAIN d THEN [st EXCEPT !.raised = "region"]
  ELSE
    LET reg == d["region"].s
        tech == TechOf(d)
        by_region == st.techs_tagged_by_region
        tagged ==
          IF tech \in DOMAIN by_region
          THEN (tech :> Append(by_region[tech], reg)) @@ by_region
          ELSE IF is_all(reg) THEN (tech :> <<>>) @@ by_region
          ELSE (tech :> <<reg>>) @@ by_region
    IN IF ~is_all(reg)
       THEN [st EXCEPT !.techs_tagged_by_region = tagged, !.i = @ + 1]
       ELSE IF "technology" \notin DOMAIN d
       THEN [st EXCEPT !.techs_tagged_by_region = tagged,
                       !.settings_all = @ @@ (tech :> d),
                       !.raised = "technology"]
       ELSE [st EXCEPT
               !.techs_tagged_by_region = tagged,
               !.settings_all = @ @@ (tech :> d),
               !.techs_tagged_w_all =
                 IF tech \in Range(@) THEN @ ELSE Append(@, tech),
               !.warned = IF tech \in Range(st.techs_tagged_w_all)
                          THEN Append(@, tech) ELSE @,
               !.to_delete = Append(@, st.i),
               !.i = @ + 1]

\* the scan step that forgets the region of an entry whose identity key was
\* seen before
ScanStepFirstOnly(st, d) ==
  IF "region" \notin DOMAIN d THEN [st EXCEPT !.raised = "region"]
  ELSE
    LET reg == d["region"].s
        tech == TechOf(d)
        by_region == st.techs_tagged_by_region
        tagged ==
          IF tech \in DOMAIN by_region
          THEN by_region
          ELSE IF is_all(reg) THEN (tech :> <<>>) @@ by_region
          ELSE (tech :> <<reg>>) @@ by_region
    IN IF ~is_all(reg)
       THEN [st EXCEPT !.techs_tagged_by_region = tagged, !.i = @ + 1]
       ELSE IF "technology" \notin DOMAIN d
       THEN [st EXCEPT !.techs_tagged_by_region = tagged,
                       !.settings_all = (tech :> d) @@ @,
                       !.raised = "technology"]
       ELSE [st EXCEPT
               !.techs_tagged_by_region = tagged,
               !.settings_all = (tech :> d) @@ @,
               !.techs_tagged_w_all =
                 IF tech \in Range(@) THEN @ ELSE Append(@, tech),
               !.warned = IF tech \in Range(st.techs_tagged_w_all)
                          THEN Append(@, tech) ELSE @,
               !.to_delete = Append(@, st.i),
               !.i = @ + 1]

\* one iteration of the scan loop on entry d (i counts from 1 here)
ScanStep(st, d) ==
  IF "region" \notin DOMAIN d THEN [st EXCEPT !.raised = "region"]
  ELSE
    LET reg == d["region"].s
        tech == TechOf(d)
        by_region == st.techs_tagged_by_region
        tagged ==
          IF tech \in DOMAIN by_region
          THEN (tech :> Append(by_region[tech], reg)) @@ by_region
          ELSE IF is_all(reg) THEN (tech :> <<>>) @@ by_region
          ELSE (tech :> <<reg>>) @@ by_region
    IN IF ~is_all(reg)
       THEN [st EXCEPT !.techs_tagged_by_region = tagged, !.i = @ + 1]
       ELSE IF "technology" \notin DOMAIN d
       THEN [st EXCEPT !.techs_tagged_by_region = tagged,
                       !.settings_all = (tech :> d) @@ @,
                       !.raised = "technology"]
       ELSE [st EXCEPT
               !.techs_tagged_by_region = tagged,
               !.settings_all = (tech :> d) @@ @,
               !.techs_tagged_w_all =
                 IF tech \in Range(@) THEN @ ELSE Append(@, tech),
               !.warned = IF tech \in Range(st.techs_tagged_w_all)
                          THEN Append(@, tech) ELSE @,
               !.to_delete = Append(@, st.i),
               !.i = @ + 1]

\* the scan loop; it stops at the first KeyError
RECURSIVE Scan(_, _)
Scan(st, items) ==
  IF items = <<>> \/ st.raised # "" THEN st
  ELSE Scan(ScanStep(st, Head(items)), Tail(items))

\* del list[i]
DelAt(list, i) ==
  IF i \in 1..Len(list)
  THEN SubSeq(list, 1, i - 1) \o SubSeq(list, i + 1, Len(list))
  ELSE list

\* the same deletions made from the first index to the last
RECURSIVE DeleteForward(_, _)
DeleteForward(list, to_delete) ==
  IF to_delete = <<>> THEN list
  ELSE DeleteForward(DelAt(list, Head(to_delete)), Tail(to_delete))

\* for i in reversed(to_delete): del settings["renewables_clusters"][i]
RECURSIVE DeleteAll(_, _)
DeleteAll(list, to_delete) ==
  IF to_delete = <<>> THEN list
  ELSE DeleteAll(DelAt(list, to_delete[Len(to_delete)]),
                 SubSeq(to_delete, 1, Len(to_delete) - 1))

\* every region counts as not tagged
NeverTagged(reg, tagged) == TRUE

\* reg not in techs_tagged_by_region[tech]
NotTagged(reg, tagged) == reg \notin Range(tagged)

\* a copy of the template that keeps the template's region
PlainCopy(template, reg) == template

\* temp_entry = settings_all[tech].copy(); temp_entry["region"] = reg
temp_entry(template, reg) == ("region" :> VStr(reg)) @@ template

\* for reg in all_regions: append a copy where reg is not tagged
RECURSIVE AppendRegions(_, _, _, _)
AppendRegions(list, template, tagged, regs) ==
  IF regs = <<>> THEN list
  ELSE AppendRegions(
         IF NotTagged(Head(regs), tagged)
         THEN Append(list, temp_entry(template, Head(regs))) ELSE list,
         template, tagged, Tail(regs))

\* for tech in techs_tagged_w_all: ...
RECURSIVE AppendTechs(_, _, _, _)
AppendTechs(list, st, techs, regs) ==
  IF techs = <<>> THEN list
  ELSE AppendTechs(
         AppendRegions(list, st.settings_all[Head(techs)],
                       st.techs_tagged_by_region[Head(techs)], regs),
         st, Tail(techs), regs)

\* settings.get("renewables_clusters", []) or []
ItemsOf(rc) == IF rc.kind = "list" THEN rc.items ELSE <<>>

\* the call with the list rewritten even when the scan has raised
apply_all_tag_eager(rc, all_regions) ==
  LET st == Scan(ScanStart, ItemsOf(rc))
  IN [raised |-> st.raised,
      warned |-> st.warned,
      rc |-> IF rc.kind # "list" THEN rc
             ELSE [rc EXCEPT !.items =
                     AppendTechs(DeleteAll(@, st.to_delete), st,
                                 st.techs_tagged_w_all, all_regions)]]

\* The call: the list after it, the tag whose absence raised, the warnings.
\* The list is touched only after the scan, and never when nothing was
\* marked for deletion (an absent list or None holds no entry to mark).
apply_all_tag_to_regions(rc, all_regions) ==
  LET st == Scan(ScanStart, ItemsOf(rc))
  IN [raised |-> st.raised,
      warned |-> st.warned,
      rc |-> IF st.raised # "" \/ rc.kind # "list" THEN rc
             ELSE [rc EXCEPT !.items =
                     AppendTechs(DeleteAll(@, st.to_delete), st,
                                 st.techs_tagged_w_all, all_regions)]]

\* settings = apply_all_tag_to_regions(settings)
ApplyTags ==
  /\ tpc = "call"
  /\ \E r \in {apply_all_tag_to_regions(renewables_clusters, model_regions)} :
       /\ renewables_clusters' = r.rc
       /\ first_out' = r.rc
       /\ tag_err' = r.raised
       /\ tag_warnings' = r.warned
       /\ tpc' = IF r.raised = "" THEN "returned" ELSE "raised"
  /\ UNCHANGED <<model_regions, clusters0, mergeVars, buildVars, checkVars,
               idVars, utilVars>>

\* the same call on the settings the first call returned
ApplyTagsAgain ==
  /\ tpc = "returned"
  /\ \E r \in {apply_all_tag_to_regions(renewables_clusters, model_regions)} :
       /\ renewables_clusters' = r.rc
       /\ tag_err' = r.raised
       /\ tag_warnings' = tag_warnings \o r.warned
       /\ tpc' = IF r.raised = "" THEN "again" ELSE "raised again"
  /\ UNCHANGED <<model_regions, clusters0, first_out, mergeVars, buildVars,
               checkVars, idVars, utilVars>>

MaxEntries == 3
MaxRegions == 2

\* an entry with a region and the technology wind
Wind(region, bin) ==
  ("region" :> VStr(region)) @@ ("technology" :> VStr("wind"))
    @@ ("bin" :> VInt(bin))

\* Entries of the clustering list: wind entries for a region or for the
\* wildcard (lower and upper case) with one of two bin settings, entries
\* with a preferred site or a turbine type, and entries without the
\* technology or the region tag.
Entries ==
  {Wind("CA", 1), Wind("CA", 2), Wind("TX", 1),
   Wind("all", 1), Wind("all", 2), Wind("ALL", 1),
   ("pref_site" :> VInt(1)) @@ Wind("all", 1),
   ("turbine_type" :> VStr("1")) @@ Wind("CA", 1),
   ("region" :> VStr("all")) @@ ("bin" :> VInt(1)),
   ("technology" :> VStr("wind")) @@ ("bin" :> VInt(1))}

\* names a model region can have; nothing keeps a region from being "all"
RegionNames == {"CA", "TX", "all"}

SeqsUpTo(S, n) == UNION {[1..m -> S] : m \in 0..n}

TagsInit ==
  /\ tpc = "call"
  /\ model_regions \in SeqsUpTo(RegionNames, MaxRegions)
  /\ renewables_clusters \in
       {NoClusters, [kind |-> "none", items |-> <<>>]}
       \cup {[kind |-> "list", items |-> q] : q \in SeqsUpTo(Entries, MaxEntries)}
  /\ clusters0 = renewables_clusters
  /\ first_out = NoClusters
  /\ tag_err = ""
  /\ tag_warnings = <<>>
  /\ heap = <<>>
  /\ nxt = 0
  /\ MergeIdle
  /\ BuildIdle
  /\ CheckIdle
  /\ IdIdle
  /\ UtilIdle

TagsNext == ApplyTags \/ ApplyTagsAgain

TagsSpec == TagsInit /\ [][TagsNext]_vars

-----------------------------------------------------------------------------
(* Claims about apply_all_tag_to_regions.                                  *)

\* the entries of the list at the first call whose region is the wildcard
Wildcards0 ==
  {i \in DOMAIN clusters0.items :
     "region" \in DOMAIN clusters0.items[i]
       /\ lower(clusters0.items[i]["region"].s) = "all"}

\* the identity keys that had a wildcard entry at the first call
WildKeys0 == {TechOf(clusters0.items[i]) : i \in Wildcards0}

\* the entries of list q with identity key tech and region reg
Claimants(q, tech, reg) ==
  {i \in DOMAIN q : /\ "region" \in DOMAIN q[i]
                    /\ q[i]["region"].s = reg
                    /\ TechOf(q[i]) = tech}

\* no model region is named like the wildcard
NoWildcardRegion ==
  \A i \in DOMAIN model_regions : lower(model_regions[i]) # "all"

\* no region occurs twice in model_regions
DistinctRegions ==
  \A i, j \in DOMAIN model_regions :
    model_regions[i] = model_regions[j] => i = j

\* no two non-wildcard entries of the input have the same identity key and
\* the same region
DistinctExplicit ==
  \A i, j \in DOMAIN clusters0.items \ Wildcards0 :
    LET d == clusters0.items[i]
        e == clusters0.items[j]
    IN ("region" \in DOMAIN d /\ "region" \in DOMAIN e
          /\ d["region"].s = e["region"].s /\ TechOf(d) = TechOf(e)) => i = j

\* C7 as stated: the second call leaves the list as the first call left it
IdempotentAnyRegions ==
  tpc = "again" => renewables_clusters = first_out

\* C7: region-tag expansion is idempotent.  When no model region is named
\* 'all', applying apply_all_tag_to_regions to the settings it returned
\* raises nothing and leaves renewables_clusters as the first call left it,
\* entry for entry and in the same order.
Idempotent ==
  NoWildcardRegion =>
    /\ tpc # "raised again"
    /\ tpc = "again" => renewables_clusters = first_out

\* the second call returned after a first call that expanded a wildcard
IdempotentWitness ==
  /\ tpc = "again"
  /\ NoWildcardRegion
  /\ Wildcards0 # {}
  /\ Len(first_out.items) > Len(clusters0.items)
  /\ renewables_clusters = first_out

\* C8 as stated: exactly one entry per identity key with a wildcard and
\* model region
CoverageAnyInput ==
  tpc = "returned" =>
    \A tech \in WildKeys0 : \A reg \in Range(model_regions) :
      Cardinality(Claimants(renewables_clusters.items, tech, reg)) = 1

\* C8: coverage.  When the input holds no two non-wildcard entries with the
\* same identity key and region, and model_regions names no region twice
\* and no region 'all', then after the call there is exactly one entry for
\* every identity key that had a wildcard entry and every model region.
Coverage ==
  (tpc = "returned" /\ DistinctExplicit /\ DistinctRegions
     /\ NoWildcardRegion) =>
    \A tech \in WildKeys0 : \A reg \in Range(model_regions) :
      Cardinality(Claimants(renewables_clusters.items, tech, reg)) = 1

\* a wildcard was expanded next to an explicit entry of the same key
CoverageWitness ==
  /\ tpc = "returned"
  /\ DistinctExplicit /\ DistinctRegions /\ NoWildcardRegion
  /\ Len(model_regions) = 2
  /\ \E tech \in WildKeys0 : \E i \in DOMAIN clusters0.items \ Wildcards0 :
       /\ "region" \in DOMAIN clusters0.items[i]
       /\ clusters0.items[i]["region"].s \in Range(model_regions)
       /\ TechOf(clusters0.items[i]) = tech
  /\ Len(renewables_clusters.items) = 2

\* C9 as stated: no (identity key, region) pair in more than one entry,
\* whatever the input
NoDoubleClaimAnyInput ==
  tpc = "returned" =>
    \A i, j \in DOMAIN renewables_clusters.items :
      (renewables_clusters.items[i]["region"]
           = renewables_clusters.items[j]["region"]
         /\ TechOf(renewables_clusters.items[i])
              = TechOf(renewables_clusters.items[j])) => i = j

\* C9: no double-claim.  When the input holds no two non-wildcard entries
\* with the same identity key and region and model_regions names no region
\* twice, then after the call no (identity key, region) pair occurs in more
\* than one entry of renewables_clusters.
NoDoubleClaim ==
  (tpc = "returned" /\ DistinctExplicit /\ DistinctRegions) =>
    \A i, j \in DOMAIN renewables_clusters.items :
      (renewables_clusters.items[i]["region"]
           = renewables_clusters.items[j]["region"]
         /\ TechOf(renewables_clusters.items[i])
              = TechOf(renewables_clusters.items[j])) => i = j

\* an explicit entry kept its region while the wildcard filled the other
NoDoubleClaimWitness ==
  /\ tpc = "returned"
  /\ DistinctExplicit /\ DistinctRegions
  /\ Wildcards0 # {}
  /\ Len(clusters0.items) = 2
  /\ Len(model_regions) = 2
  /\ \E i \in DOMAIN clusters0.items \ Wildcards0 :
       /\ clusters0.items[i]["region"].s \in Range(model_regions)
       /\ TechOf(clusters0.items[i]) \in WildKeys0
       /\ clusters0.items[i] \in Range(renewables_clusters.items)

\* C10 as stated: no wildcard entry is left, whatever the model regions
NoWildcardLeftAnyRegions ==
  tpc = "returned" =>
    \A i \in DOMAIN renewables_clusters.items :
      lower(renewables_clusters.items[i]["region"].s) # "all"

\* C10: when no model region is named 'all', then after the call returns no
\* entry of renewables_clusters has the wildcard region 'all', whatever the
\* input list (absent and empty lists included).
NoWildcardLeft ==
  (tpc = "returned" /\ NoWildcardRegion) =>
    \A i \in DOMAIN renewables_clusters.items :
      lower(renewables_clusters.items[i]["region"].s) # "all"

\* two wildcard entries, one of them upper-case, were removed and expanded
NoWildcardLeftWitness ==
  /\ tpc = "returned"
  /\ NoWildcardRegion
  /\ Cardinality(Wildcards0) = 2
  /\ \E i \in Wildcards0 : clusters0.items[i]["region"].s = "ALL"
  /\ Len(renewables_clusters.items) = 2

\* the non-wildcard entries of the input, in their order
Explicit0 ==
  SelectSeq(clusters0.items,
            LAMBDA d : lower(d["region"].s) # "all")

\* the entries of the list after the call that come after the explicit ones
Generated ==
  SubSeq(renewables_clusters.items, Len(Explicit0) + 1,
         Len(renewables_clusters.items))

\* the regions of the explicit entries with identity key tech
ExplicitRegions(tech) ==
  {Explicit0[i]["region"].s :
     i \in {j \in 1..Len(Explicit0) : TechOf(Explicit0[j]) = tech}}

\* the regions of the generated copies with identity key tech
GeneratedRegions(tech) ==
  {Generated[i]["region"].s :
     i \in {j \in 1..Len(Generated) : TechOf(Generated[j]) = tech}}

\* C25 as stated, whatever the model regions are named
ExactExpansionAnyRegions ==
  tpc = "returned" =>
    /\ Len(renewables_clusters.items) >= Len(Explicit0)
    /\ SubSeq(renewables_clusters.items, 1, Len(Explicit0)) = Explicit0
    /\ \A tech \in WildKeys0 :
         GeneratedRegions(tech) = Range(model_regions) \ ExplicitRegions(tech)

\* C25: when no model region is named 'all', then for every identity key
\* that has a wildcard entry the set of regions for which
\* apply_all_tag_to_regions appends a generated copy is exactly the model
\* regions minus the regions of the non-wildcard entries with that identity
\* key, whether those explicit entries come before or after the wildcard
\* entry in the list; an explicit entry is never removed or changed, and
\* with no explicit entry every model region gets a copy.
ExactExpansion ==
  (tpc = "returned" /\ NoWildcardRegion) =>
    /\ Len(renewables_clusters.items) >= Len(Explicit0)
    /\ SubSeq(renewables_clusters.items, 1, Len(Explicit0)) = Explicit0
    /\ \A tech \in WildKeys0 :
         GeneratedRegions(tech) = Range(model_regions) \ ExplicitRegions(tech)

\* the explicit entry for CA came after the wildcard of its key; of the
\* two model regions only TX, which had no explicit entry, got a copy
ExactExpansionWitness ==
  /\ tpc = "returned"
  /\ NoWildcardRegion
  /\ model_regions = <<"CA", "TX">>
  /\ clusters0.items = <<Wind("all", 1), Wind("CA", 2)>>
  /\ renewables_clusters.items = <<Wind("CA", 2), Wind("TX", 1)>>

\* the last wildcard entry of the input with identity key tech
LastWildcard(tech) ==
  clusters0.items[CHOOSE i \in Wildcards0 :
                    /\ TechOf(clusters0.items[i]) = tech
                    /\ \A j \in Wildcards0 :
                         TechOf(clusters0.items[j]) = tech => j <= i]

\* C26: when several wildcard entries have the same identity key,
\* apply_all_tag_to_regions removes all of them and every generated copy
\* for that key equals the last such entry in list order with only its
\* region field changed; the remaining non-wildcard entries keep their
\* relative order and all generated copies are appended after them.
LastWildcardWins ==
  tpc = "returned" =>
    /\ Len(renewables_clusters.items) >= Len(Explicit0)
    /\ SubSeq(renewables_clusters.items, 1, Len(Explicit0)) = Explicit0
    /\ \A i \in 1..Len(Generated) :
         /\ TechOf(Generated[i]) \in WildKeys0
         /\ Generated[i]["region"].s \in Range(model_regions)
         /\ Generated[i] =
              ("region" :> Generated[i]["region"])
                @@ LastWildcard(TechOf(Generated[i]))

\* two wildcard entries for wind with different bins came around an
\* explicit entry; both are gone, the explicit entry is first and the copy
\* has the bin of the second wildcard
LastWildcardWinsWitness ==
  /\ tpc = "returned"
  /\ model_regions = <<"CA", "TX">>
  /\ clusters0.items = <<Wind("all", 1), Wind("CA", 1), Wind("all", 2)>>
  /\ renewables_clusters.items = <<Wind("CA", 1), Wind("TX", 2)>>
  /\ tag_warnings # <<>>

\* C28: apply_all_tag_to_regions returns a copy of the input settings: the
\* settings passed in by the caller, and their renewables_clusters list,
\* are the same after the call as before it, and the expanded list is only
\* in the returned object.
ReturnsCopy ==
  tpc = "returned" => renewables_clusters = clusters0

\* a call on a list without wildcard entry, or on no list, changes nothing
ReturnsSameWithoutWildcard ==
  (tpc = "returned" /\ Wildcards0 = {}) => renewables_clusters = clusters0

\* the tag whose absence makes entry d fail the scan, "" if none does
MissingTag(d) ==
  IF "region" \notin DOMAIN d THEN "region"
  ELSE IF lower(d["region"].s) = "all" /\ "technology" \notin DOMAIN d
  THEN "technology"
  ELSE ""

\* the tag missing from the first entry of list q that misses one
FirstMissingTag(q) ==
  IF \A i \in 1..Len(q) : MissingTag(q[i]) = "" THEN ""
  ELSE MissingTag(q[CHOOSE i \in 1..Len(q) :
                      /\ MissingTag(q[i]) # ""
                      /\ \A j \in 1..(i - 1) : MissingTag(q[j]) = ""])

\* C19: apply_all_tag_to_regions fails with the KeyError about the missing
\* tag when an entry whose region is the wildcard has no technology, and
\* when any entry has no region, and not otherwise; when it fails
\* settings['renewables_clusters'] has not been modified: no entry removed,
\* none appended.
MissingField ==
  tpc \in {"returned", "raised"} =>
    /\ tpc = "raised" <=> FirstMissingTag(clusters0.items) # ""
    /\ tag_err = FirstMissingTag(clusters0.items)
    /\ tpc = "raised" => renewables_clusters = clusters0

\* the scan had marked a wildcard entry for deletion when it met a wildcard
\* entry without technology; the call has raised and the list is as given
MissingFieldWitness ==
  /\ tpc = "raised"
  /\ tag_err = "technology"
  /\ Len(clusters0.items) >= 2
  /\ MissingTag(clusters0.items[1]) = ""
  /\ lower(clusters0.items[1]["region"].s) = "all"
  /\ MissingTag(clusters0.items[2]) = "technology"
  /\ renewables_clusters = clusters0

-----------------------------------------------------------------------------
(* Inputs of build_scenario_settings with several planning years, rows of  *)
(* any year and a case name file that may lack a case id.                  *)

MaxRunRows == 2

\* the ways the settings give the planning periods: model_periods alone,
\* model_periods next to the two lists, the two lists alone, an empty
\* model_periods next to the two lists, none of the keys, and
\* model_first_planning_year given as a number
PeriodKeys ==
  {"model_periods" :> TList(<<2025, 2030, 2030, 2040>>),
   "model_periods" :> TList(<<2025, 2030>>)
     @@ "model_year" :> TList(<<2040>>)
     @@ "model_first_planning_year" :> TList(<<2030>>),
   "model_year" :> TList(<<2030, 2040>>)
     @@ "model_first_planning_year" :> TList(<<2025, 2030>>),
   "model_periods" :> TList(<<>>)
     @@ "model_year" :> TList(<<2030>>)
     @@ "model_first_planning_year" :> TList(<<2025>>),
   <<>>,
   "model_year" :> TList(<<2030>>)
     @@ "model_first_planning_year" :> TInt(2025)}

\* the all_cases override of both planning years
RunAllCases == TMap("model_year" :> TInt(1) @@ "case_name" :> TStr("y"))

\* the slice of settings_management of one planning year: fuel/high and
\* tech/high both set key a, and the overrides also set the keys that the
\* loop injects
RunSlice ==
  TMap("all_cases" :> RunAllCases
       @@ "fuel" :> TMap("high" :> TMap("a" :> TInt(2)
                                        @@ "model_first_planning_year" :> TInt(7)))
       @@ "tech" :> TMap("high" :> TMap("a" :> TInt(3))))

RunDoc(periods) ==
  TMap(periods @@ "a" :> TInt(0) @@ "case_name" :> TStr("x")
       @@ "settings_management" :>
            TMap("2030" :> RunSlice @@ "2040" :> RunSlice))

\* rows of the scenario definitions: a planning year or year 2050, a case
\* id, and defined (high) or undefined (low) labels
RunRows ==
  {[case_id |-> c, year |-> y, val |-> v] :
     c \in {1, 2}, y \in {2030, 2040, 2050},
     v \in {[fuel |-> "high", tech |-> "high"],
            [fuel |-> "high", tech |-> "low"],
            [fuel |-> "low", tech |-> "low"]}}

\* the case name file, with or without case id 2
NameFiles ==
  {<< <<1, "base case">>, <<2, "high fuel">> >>, << <<1, "base case">> >>}

RunInit ==
  /\ \E periods \in PeriodKeys :
       /\ heap = HeapOf(RunDoc(periods), Settings.a)
       /\ pre = RunDoc(periods)
  /\ scenario_definitions \in SeqsUpTo(RunRows, MaxRunRows)
  /\ case_id_description \in NameFiles
  /\ case_id_name_map = <<>>
  /\ nxt = 0
  /\ MergeIdle
  /\ TagsIdle
  /\ CheckIdle
  /\ IdIdle
  /\ UtilIdle
  /\ pc = "start"
  /\ model_planning_period_dict = <<>>
  /\ yi = 0
  /\ todo = <<>>
  /\ case_id = 0
  /\ failed = ""
  /\ cur_settings = VNone
  /\ modified_settings = <<>>
  /\ new_param_warn_list = <<>>
  /\ warnings = <<>>
  /\ scenario_settings = <<>>
  /\ err = NoError
  /\ applied = <<>>
  /\ returned = <<>>
  /\ mutated = <<>>

RunSpec == RunInit /\ [][Next]_vars

-----------------------------------------------------------------------------
(* Claims about the run of build_scenario_settings over several years.     *)

\* the start year paired with planning year y
StartYearOf(y) ==
  LET i == CHOOSE i \in DOMAIN model_planning_period_dict :
             model_planning_period_dict[i][2] = y
  IN model_planning_period_dict[i][1]

\* the three fields that the loop sets last
Injected(y, c) ==
  "model_first_planning_year" :> TInt(StartYearOf(y))
    @@ "model_year" :> TInt(y)
    @@ "case_name" :> TStr(case_id_name_map[c])

\* the keys of the overrides of case c that settings_management defines,
\* a later category over an earlier one (the overrides here are one level
\* deep)
DefinedOverrides(y, c) ==
  LET RECURSIVE Over(_)
      Over(i) ==
        IF i = 0 THEN <<>>
        ELSE LET O == Selected(y, Categories[i], c)
             IN (IF O.t = "map" THEN O.f ELSE <<>>) @@ Over(i - 1)
  IN Over(Len(Categories))

\* a category whose label has no override leaves the case's settings alone:
\* the returned object is the base settings with all_cases, the defined
\* overrides, case_id and the injected fields
MissingIsEmpty ==
  pc = "done" =>
    \A yc \in Resolved :
      returned[yc[1]][yc[2]] =
        TMap(Injected(yc[1], yc[2]) @@ DefinedOverrides(yc[1], yc[2])
             @@ "case_id" :> TInt(yc[2]) @@ AllCasesOf(yc[1]).f @@ pre.f)

\* C11: during one build_scenario_settings call the 'not included in
\* settings_management' warning is logged at most once per distinct
\* (category, value label) pair across the whole run, over all the planning
\* years and all the cases, and the missing override is treated as empty:
\* the case's settings are not changed by that category.
WarnedOncePerRun ==
  /\ \A i, j \in DOMAIN warnings :
       (warnings[i].category = warnings[j].category
          /\ warnings[i].value = warnings[j].value) => i = j
  /\ MissingIsEmpty

\* what line 875 leaves of it: the list of the pairs warned about is
\* emptied for every planning year, so a pair is warned about once within
\* a year, over all the cases of that year
WarnedOncePerYear ==
  /\ \A i, j \in DOMAIN warnings :
       (warnings[i].category = warnings[j].category
          /\ warnings[i].value = warnings[j].value
          /\ warnings[i].year = warnings[j].year) => i = j
  /\ MissingIsEmpty

\* two cases of one year have the same undefined fuel label and the run
\* has returned with one warning about it for that year
WarnedOncePerYearWitness ==
  /\ pc = "done"
  /\ \E y \in DOMAIN scenario_settings :
       /\ DOMAIN scenario_settings[y] = {1, 2}
       /\ \A c \in {1, 2} :
            CaseValue(scenario_definitions, y, "fuel", c) = "low"
       /\ Cardinality({i \in DOMAIN warnings :
                         /\ warnings[i].category = "fuel"
                         /\ warnings[i].value = "low"
                         /\ warnings[i].year = y}) = 1

\* the settings give a non-empty model_periods
HasModelPeriods ==
  At(pre, <<"model_periods">>).t = "list"
    /\ At(pre, <<"model_periods">>).items # <<>>

\* the settings give model_year and model_first_planning_year as lists
HasYearLists ==
  At(pre, <<"model_year">>).t = "list"
    /\ At(pre, <<"model_first_planning_year">>).t = "list"

\* the (start year, year) pairs that the settings give
GivenPeriods ==
  IF HasModelPeriods
  THEN LET q == At(pre, <<"model_periods">>).items
       IN {<<q[2 * i - 1], q[2 * i]>> : i \in 1..(Len(q) \div 2)}
  ELSE IF HasYearLists
  THEN LET ys == At(pre, <<"model_year">>).items
           fs == At(pre, <<"model_first_planning_year">>).items
       IN {<<fs[i], ys[i]>> : i \in DOMAIN ys \cap DOMAIN fs}
  ELSE {}

PlanningYears == {q[2] : q \in GivenPeriods}

\* the case ids of the rows of year y
CaseIdsOf(y) ==
  {scenario_definitions[i].case_id :
     i \in {j \in DOMAIN scenario_definitions :
              scenario_definitions[j].year = y}}

\* C12: the mapping that build_scenario_settings returns has one key per
\* planning year (the end year of each model_periods pair, or each
\* model_year); under a planning year its keys are the distinct case ids of
\* the rows of that year, none when there is no such row, and a row of
\* another year gives no entry.
ResultKeys ==
  pc = "done" =>
    /\ DOMAIN returned = PlanningYears
    /\ \A y \in DOMAIN returned : DOMAIN returned[y] = CaseIdsOf(y)

\* two planning years, one with a case and one without, and a row whose
\* year is not a planning year
ResultKeysWitness ==
  /\ pc = "done"
  /\ DOMAIN returned = {2030, 2040}
  /\ \E y \in {2030, 2040} : DOMAIN returned[y] = {}
  /\ \E y \in {2030, 2040} : DOMAIN returned[y] # {}
  /\ \E i \in DOMAIN scenario_definitions : scenario_definitions[i].year = 2050

\* C13: in the returned mapping every object of planning year y and case c
\* has model_year y, model_first_planning_year the start year paired with
\* y, and case_name the entry of c in the case name table, also where the
\* base settings, all_cases or a category override set these keys.
InjectedLast ==
  pc = "done" =>
    \A y \in DOMAIN returned : \A c \in DOMAIN returned[y] :
      /\ At(returned[y][c], <<"model_year">>) = TInt(y)
      /\ \E q \in GivenPeriods :
           /\ q[2] = y
           /\ At(returned[y][c], <<"model_first_planning_year">>) = TInt(q[1])
      /\ At(returned[y][c], <<"case_name">>) = TStr(case_id_name_map[c])

\* a returned case whose fuel override sets model_first_planning_year,
\* whose all_cases sets model_year and case_name, and whose base settings
\* set case_name
InjectedLastWitness ==
  /\ pc = "done"
  /\ \E y \in DOMAIN returned : \E c \in DOMAIN returned[y] :
       /\ "model_first_planning_year" \in DOMAIN Selected(y, "fuel", c).f
       /\ "model_year" \in DOMAIN AllCasesOf(y).f
       /\ "case_name" \in DOMAIN pre.f
       /\ At(returned[y][c], <<"case_name">>) = TStr("base_case")

\* the error raised for the missing planning periods
MissingConfiguration ==
  [kind |-> "KeyError", key |-> <<"model_periods">>, case_id |-> 0]

\* C14: build_scenario_settings fails with the KeyError of the missing
\* planning periods exactly when the settings have neither a non-empty
\* model_periods nor both model_year and model_first_planning_year as
\* lists; it then has not read the case name table and has expanded no
\* case; and a model_periods that is present alone gives the planning years.
MissingPeriods ==
  pc # "start" =>
    /\ err = MissingConfiguration <=> ~HasModelPeriods /\ ~HasYearLists
    /\ err = MissingConfiguration =>
         /\ pc = "error"
         /\ case_id_name_map = <<>>
         /\ scenario_settings = <<>>
         /\ heap = HeapOf(pre, Settings.a)
    /\ HasModelPeriods =>
         LET q == At(pre, <<"model_periods">>).items
         IN {model_planning_period_dict[i] :
               i \in DOMAIN model_planning_period_dict}
              = {<<q[2 * i - 1], q[2 * i]>> : i \in 1..(Len(q) \div 2)}

\* the call failed on settings with a model_year list and a
\* model_first_planning_year that is no list
MissingPeriodsWitness ==
  /\ pc = "error"
  /\ err = MissingConfiguration
  /\ At(pre, <<"model_year">>).t = "list"
  /\ At(pre, <<"model_first_planning_year">>).t = "int"
  /\ scenario_definitions # <<>>

\* a row of a planning year has a case id that the case name file lacks
MissingName ==
  \E i \in DOMAIN scenario_definitions :
    /\ scenario_definitions[i].year \in PlanningYears
    /\ \A j \in DOMAIN case_id_description :
         case_id_description[j][1] # scenario_definitions[i].case_id

\* C15 as stated: with a name missing the call ends in the KeyError
MissingNameKeyError ==
  (pc \in {"done", "error"} /\ MissingName) =>
    /\ pc = "error"
    /\ err.kind = "KeyError"
    /\ returned = <<>>

\* C15: if a case id of a row of a planning year is missing from the case
\* name table, build_scenario_settings fails and returns no result at all,
\* nothing for the cases and years expanded before either: it fails with
\* the KeyError of the name lookup, unless the AssertionError of a key
\* modified twice is raised before that lookup is reached.
MissingNameFails ==
  (pc \in {"done", "error"} /\ MissingName) =>
    /\ pc = "error"
    /\ returned = <<>>
    /\ \/ /\ err.kind = "KeyError"
          /\ err.key = <<"case_name">>
          /\ err.case_id \notin DOMAIN case_id_name_map
       \/ err.kind = "AssertionError"

\* the name lookup failed in the second planning year, after a case of the
\* first one had been expanded
MissingNameFailsWitness ==
  /\ pc = "error"
  /\ err.kind = "KeyError"
  /\ err.key = <<"case_name">>
  /\ yi = 2
  /\ \E y \in DOMAIN scenario_settings : DOMAIN scenario_settings[y] # {}
  /\ returned = <<>>
-----------------------------------------------------------------------------
(* check_settings(settings, pg_engine) and check_atb_scenario.  The        *)
(* settings are a tree (lists hold trees here); the reference database is  *)
(* the two tables the checks read.                                         *)

\* rows <<atb_year, technology, tech_detail, cost_case>> of the table
\* technology_costs_nrelatb
technology_costs_nrelatb ==
  {<<2020, "NaturalGas", "CC", "Moderate">>,
   <<2022, "NaturalGas", "CC", "Moderate">>,
   <<2022, "NaturalGas", "CC", "Advanced">>}

\* column region_id_epaipm of the table regions_entity_epaipm
ipm_region_list == {"CA", "TX"}

\* settings.get(k, default): the default is for an absent key only
get(settings, k, default) ==
  IF k \in DOMAIN settings.f THEN settings.f[k] ELSE default

\* the truth value of a Python object
bool(T) ==
  CASE T.t = "int" -> T.n # 0
    [] T.t = "str" -> T.s # ""
    [] T.t = "list" -> T.items # <<>>
    [] T.t = "map" -> DOMAIN T.f # {}
    [] OTHER -> FALSE

\* a or b
Or(a, b) == IF bool(a) THEN a ELSE b

\* sub in v, for two strings
In(sub, v) ==
  \E i \in 1..(Len(v) - Len(sub) + 1) : SubSeq(v, i, i + Len(sub) - 1) = sub

\* the values of a dict in iteration order
values(T) ==
  LET ks == SeqOf(DOMAIN T.f) IN [i \in 1..Len(ks) |-> T.f[ks[i]]]

RECURSIVE chain(_)
\* itertools.chain.from_iterable over a sequence of lists
chain(q) == IF q = <<>> THEN <<>> ELSE Head(q).items \o chain(Tail(q))

RECURSIVE findkeys(_, _)
\* every value stored under key kv anywhere in the tree, a dict's own value
\* before the ones below it
findkeys(node, kv) ==
  LET RECURSIVE Each(_)
      Each(q) ==
        IF q = <<>> THEN <<>> ELSE findkeys(Head(q), kv) \o Each(Tail(q))
  IN IF node.t = "list" THEN Each(node.items)
     ELSE IF node.t = "map"
     THEN (IF kv \in DOMAIN node.f THEN <<node.f[kv]>> ELSE <<>>)
          \o Each(values(node))
     ELSE <<>>

NoCheckError == [kind |-> "", about |-> "", names |-> <<>>]

\* check_atb_scenario: the exception it ends with, if any.  techs.extend(l)
\* needs an iterable l; the labels are compared with the cost cases of the
\* ATB year and the unmatched ones are listed once each.
check_atb_scenario(settings) ==
  LET atb_year == get(settings, "atb_data_year", TNone)
      atb_cases ==
        {TStr(r[4]) : r \in {x \in technology_costs_nrelatb : x[1] = atb_year.n}}
      found == findkeys(settings, "atb_new_gen")
      techs == chain(found)
      cases == [i \in 1..Len(techs) |-> techs[i].items[3]]
                 \o findkeys(settings, "atb_cost_case")
      bad_case_names == SelectSeq(cases, LAMBDA c : c \notin atb_cases)
  IN IF \E i \in 1..Len(found) : found[i].t \in {"none", "int"}
     THEN [kind |-> "TypeError", about |-> "atb_new_gen", names |-> <<>>]
     ELSE IF bad_case_names # <<>>
     THEN [kind |-> "KeyError", about |-> "ATB tech scenario",
           names |-> SeqOf(Range(bad_case_names))]
     ELSE NoCheckError

\* lines 327-355: the warnings about the entries of atb_new_gen
atb_tech_warnings(atb_techs, cost_mult_techs) ==
  LET RECURSIVE W(_)
      W(i) ==
        IF i > Len(atb_techs) THEN <<>>
        ELSE LET tech == atb_techs[i].items[1].s
                 tech_detail == atb_techs[i].items[2].s
             IN (IF \A r \in technology_costs_nrelatb :
                       <<r[2], r[3]>> # <<tech, tech_detail>>
                 THEN <<[msg |-> "does not match any NREL ATB technologies",
                         key |-> tech \o " - " \o tech_detail]>>
                 ELSE <<>>)
                \o (IF TStr(tech \o "_" \o tech_detail)
                         \notin Range(cost_mult_techs)
                    THEN <<[msg |-> "cost_multiplier_technology_map",
                            key |-> tech \o "_" \o tech_detail]>>
                    ELSE <<>>)
                \o W(i + 1)
  IN W(1)

\* lines 357-368: the warnings about the entries of modified_atb_new_gen
mod_tech_warnings(atb_mod_techs, cost_mult_techs) ==
  LET vs == values(atb_mod_techs)
      mt_name(i) ==
        vs[i].f["new_technology"].s \o "_" \o vs[i].f["new_tech_detail"].s
      RECURSIVE W(_)
      W(i) ==
        IF i > Len(vs) THEN <<>>
        ELSE (IF TStr(mt_name(i)) \notin Range(cost_mult_techs)
              THEN <<[msg |-> "cost_multiplier_technology_map",
                      key |-> mt_name(i)]>>
              ELSE <<>>)
             \o W(i + 1)
  IN W(1)

\* lines 370-379: the warnings about the entries of additional_new_gen
add_tech_warnings(add_new_techs, cost_mult_techs) ==
  LET missing == SelectSeq(add_new_techs,
                           LAMBDA t : t \notin Range(cost_mult_techs))
  IN [i \in 1..Len(missing) |->
        [msg |-> "cost_multiplier_technology_map", key |-> missing[i].s]]

\* lines 381-389: the warnings about the regions of region_aggregations
aggregation_warnings(region_aggregations) ==
  LET unknown == SelectSeq(chain(values(region_aggregations)),
                           LAMBDA r : r.s \notin ipm_region_list)
  IN [i \in 1..Len(unknown) |->
        [msg |-> "There is no IPM region", key |-> unknown[i].s]]

\* lines 391-406: the warnings about the model regions
region_warnings(regions, cost_mult_regions, aeo_fuel_regions) ==
  LET RECURSIVE W(_)
      W(i) ==
        IF i > Len(regions) THEN <<>>
        ELSE (IF regions[i] \notin Range(cost_mult_regions)
              THEN <<[msg |-> "cost_multiplier_region_map",
                      key |-> regions[i].s]>>
              ELSE <<>>)
             \o (IF regions[i] \notin Range(aeo_fuel_regions)
                 THEN <<[msg |-> "aeo_fuel_region_map", key |-> regions[i].s]>>
                 ELSE <<>>)
             \o W(i + 1)
  IN W(1)

\* the entries counted more than twice only
duplicate_cols_over_two(cols) ==
  LET RECURSIVE Keys(_)
      Keys(n) ==
        IF n = 0 THEN <<>>
        ELSE IF cols[n] \in Range(Keys(n - 1)) THEN Keys(n - 1)
        ELSE Append(Keys(n - 1), cols[n])
      num(c) == Cardinality({i \in 1..Len(cols) : cols[i] = c})
  IN SelectSeq(Keys(Len(cols)), LAMBDA c : num(c) > 2)

\* lines 408-409: a Counter keeps its keys in the order of their first
\* occurrence; the entries counted more than once
duplicate_cols(cols) ==
  LET RECURSIVE Keys(_)
      Keys(n) ==
        IF n = 0 THEN <<>>
        ELSE IF cols[n] \in Range(Keys(n - 1)) THEN Keys(n - 1)
        ELSE Append(Keys(n - 1), cols[n])
      num(c) == Cardinality({i \in 1..Len(cols) : cols[i] = c})
  IN SelectSeq(Keys(Len(cols)), LAMBDA c : num(c) > 1)

\* the data year taken from eia_aeo_year first
aeo_year_base_first(settings, own) ==
  Or(get(settings, "eia_aeo_year", TNone), get(settings, own, TNone))

\* lines 417-419 and 430-432: the data year of the fuel or the load data
aeo_year(settings, own) ==
  Or(get(settings, own, TNone), get(settings, "eia_aeo_year", TNone))

\* lines 421 and 434
stale(v, year) == In("REF", v) /\ ~In(ToString(year.n), v)

\* lines 416-427: eia_series_scenario_names with its stale values rewritten,
\* and the warnings
fuel_rewrite(settings) ==
  LET fuel_aeo_year == aeo_year(settings, "fuel_eia_aeo_year")
      names == get(settings, "eia_series_scenario_names", TMap(<<>>))
      ks == SelectSeq(SeqOf(DOMAIN names.f),
                      LAMBDA k : stale(names.f[k].s, fuel_aeo_year))
  IN IF bool(fuel_aeo_year) /\ ks # <<>>
     THEN [settings |->
             TMap("eia_series_scenario_names" :>
                    TMap([k \in DOMAIN names.f |->
                            IF k \in Range(ks)
                            THEN TStr("REF" \o ToString(fuel_aeo_year.n))
                            ELSE names.f[k]])
                  @@ settings.f),
           warned |-> [i \in 1..Len(ks) |->
                         [msg |-> "eia_series_scenario_names", key |-> ks[i]]]]
     ELSE [settings |-> settings, warned |-> <<>>]

\* lines 429-440: growth_scenario rewritten if stale, and the warning
load_rewrite(settings) ==
  LET load_aeo_year == aeo_year(settings, "load_eia_aeo_year")
      growth_scenario == get(settings, "growth_scenario", TStr(""))
  IN IF bool(load_aeo_year) /\ stale(growth_scenario.s, load_aeo_year)
     THEN [settings |->
             TMap("growth_scenario" :>
                    TStr("REF" \o ToString(load_aeo_year.n))
                  @@ settings.f),
           warned |-> <<[msg |-> "growth_scenario",
                         key |-> growth_scenario.s]>>]
     ELSE [settings |-> settings, warned |-> <<>>]

\* a check_settings that rewrites the labels before it looks for duplicate
\* columns
check_settings_rewrite_first(settings) ==
  LET atb == IF bool(get(settings, "atb_data_year", TNone))
             THEN check_atb_scenario(settings)
             ELSE NoCheckError
      dups == duplicate_cols(get(settings, "generator_columns",
                                 TList(<<>>)).items)
      fuel == fuel_rewrite(settings)
      load == load_rewrite(fuel.settings)
  IN IF atb.kind # ""
     THEN [settings |-> settings, raised |-> atb, warned |-> <<>>]
     ELSE [settings |-> load.settings,
           raised |-> IF dups # <<>>
                      THEN [kind |-> "KeyError", about |-> "generator_columns",
                            names |-> dups]
                      ELSE NoCheckError,
           warned |-> fuel.warned \o load.warned]

\* check_settings: the settings as it leaves them, the exception it ends
\* with and the warnings it logs
check_settings(settings) ==
  LET atb == IF bool(get(settings, "atb_data_year", TNone))
             THEN check_atb_scenario(settings)
             ELSE NoCheckError
      cost_mult_regions ==
        chain(values(get(settings, "cost_multiplier_region_map", TMap(<<>>))))
      aeo_fuel_regions ==
        chain(values(get(settings, "aeo_fuel_region_map", TMap(<<>>))))
      atb_techs == Or(get(settings, "atb_new_gen", TList(<<>>)), TList(<<>>))
      atb_mod_techs ==
        Or(get(settings, "modified_atb_new_gen", TMap(<<>>)), TMap(<<>>))
      add_new_techs ==
        Or(get(settings, "additional_new_gen", TList(<<>>)), TList(<<>>))
      cost_mult_techs ==
        chain(values(get(settings, "cost_multiplier_technology_map",
                         TMap(<<>>))))
      logged ==
        atb_tech_warnings(atb_techs.items, cost_mult_techs)
          \o mod_tech_warnings(atb_mod_techs, cost_mult_techs)
          \o add_tech_warnings(add_new_techs.items, cost_mult_techs)
          \o aggregation_warnings(
               Or(get(settings, "region_aggregations", TNone), TMap(<<>>)))
          \o region_warnings(settings.f["model_regions"].items,
                             cost_mult_regions, aeo_fuel_regions)
      dups == duplicate_cols(get(settings, "generator_columns",
                                 TList(<<>>)).items)
      fuel == fuel_rewrite(settings)
      load == load_rewrite(fuel.settings)
  IN IF atb.kind # ""
     THEN [settings |-> settings, raised |-> atb, warned |-> <<>>]
     ELSE IF dups # <<>>
     THEN [settings |-> settings,
           raised |-> [kind |-> "KeyError", about |-> "generator_columns",
                       names |-> dups],
           warned |-> logged]
     ELSE [settings |-> load.settings, raised |-> NoCheckError,
           warned |-> logged \o fuel.warned \o load.warned]

\* the warnings of a call, marked with the number of the call
Run(n, warned) ==
  [i \in 1..Len(warned) |->
     [run |-> n, msg |-> warned[i].msg, key |-> warned[i].key]]

\* check_settings(settings, pg_engine) as test_check_settings calls it
CheckSettings ==
  /\ cpc = "call"
  /\ \E r \in {check_settings(csettings)} :
       /\ csettings' = r.settings
       /\ cfirst' = r.settings
       /\ cerr' = r.raised
       /\ cwarnings' = Run(1, r.warned)
       /\ cpc' = IF r.raised.kind = "" THEN "returned" ELSE "raised"
  /\ UNCHANGED <<csettings0, mergeVars, buildVars, tagVars, idVars,
               utilVars>>

\* the same call on the settings the first call left
CheckSettingsAgain ==
  /\ cpc = "returned"
  /\ \E r \in {check_settings(csettings)} :
       /\ csettings' = r.settings
       /\ cerr' = r.raised
       /\ cwarnings' = cwarnings \o Run(2, r.warned)
       /\ cpc' = IF r.raised.kind = "" THEN "again" ELSE "raised again"
  /\ UNCHANGED <<csettings0, cfirst, mergeVars, buildVars, tagVars, idVars,
               utilVars>>

-----------------------------------------------------------------------------
(* Inputs of check_settings: settings for the cost case check, for the     *)
(* check of generator_columns and for the scenario names.                  *)

MaxTechs == 2
MaxColumns == 3

\* cost case labels; the table has Moderate for 2020, Moderate and
\* Advanced for 2022
CostCases == {"Moderate", "Advanced", "Bogus"}

\* an entry of atb_new_gen: technology, tech_detail, cost_case, size
NewGen(label) ==
  TList(<<TStr("NaturalGas"), TStr("CC"), TStr(label), TInt(100)>>)

\* a modified_atb_new_gen dict with one technology
ModifiedGen(label) ==
  TMap("NGCCS100" :>
         TMap("new_technology" :> TStr("NaturalGas")
              @@ "new_tech_detail" :> TStr("CCS100")
              @@ "atb_cost_case" :> TStr(label)))

\* a key that is absent or has one of the values
Optional(k, S) == {<<>>} \cup {k :> v : v \in S}

\* model_regions is read with settings["model_regions"]; one of its regions
\* is an aggregation with a region the table does not have
RequiredKeys ==
  "model_regions" :> TList(<<TStr("CA"), TStr("East")>>)
    @@ "region_aggregations" :>
         TMap("East" :> TList(<<TStr("TX"), TStr("NY")>>))
    @@ "additional_new_gen" :> TList(<<TStr("Hydrogen_CT")>>)
    @@ "cost_multiplier_region_map" :> TMap("WECC" :> TList(<<TStr("CA")>>))

\* atb_new_gen may hold None (line 318 reads it with "or []"), and so may
\* modified_atb_new_gen; settings_management may carry another atb_new_gen
CostCaseSettings ==
  {TMap(y @@ g @@ m @@ sm @@ RequiredKeys) :
     y \in Optional("atb_data_year", {TInt(2020), TInt(2022)}),
     g \in Optional("atb_new_gen",
                    {TNone} \cup {TList(q) :
                       q \in SeqsUpTo({NewGen(l) : l \in CostCases}, MaxTechs)}),
     m \in Optional("modified_atb_new_gen",
                    {TNone} \cup {ModifiedGen(l) : l \in CostCases}),
     sm \in Optional("settings_management",
                     {TMap("2030" :> TMap("all_cases" :>
                        TMap("atb_new_gen" :> TList(<<NewGen(l)>>)))) :
                        l \in CostCases})}

\* generator_columns with and without duplicates, in settings that may fail
\* the cost case check and may carry a growth scenario of another year
ColumnSettings ==
  {TMap(c @@ y @@ m @@ e @@ g @@ RequiredKeys) :
     c \in Optional("generator_columns",
                    {TNone} \cup {TList(q) :
                       q \in SeqsUpTo({TStr("a"), TStr("b")}, MaxColumns)}),
     y \in Optional("atb_data_year", {TInt(2022)}),
     m \in Optional("modified_atb_new_gen",
                    {ModifiedGen("Moderate"), ModifiedGen("Bogus")}),
     e \in Optional("eia_aeo_year", {TInt(2022)}),
     g \in Optional("growth_scenario", {TStr("REF2020"), TStr("HIGHPRICE")})}

\* scenario names with and without REF and a year
ScenarioNames == {"REF2020", "REF2022", "HIGHPRICE", "REF"}

ScenarioSettings ==
  {TMap(e @@ f @@ l @@ n @@ g @@ RequiredKeys) :
     e \in Optional("eia_aeo_year", {TInt(2020), TInt(2022)}),
     f \in Optional("fuel_eia_aeo_year", {TInt(2022)}),
     l \in Optional("load_eia_aeo_year", {TInt(2023)}),
     n \in Optional("eia_series_scenario_names",
                    {TMap("reference" :> TStr(a) @@ "high_price" :> TStr(b)) :
                       a \in ScenarioNames, b \in ScenarioNames}),
     g \in Optional("growth_scenario", {TStr(a) : a \in ScenarioNames})}

CheckInit ==
  /\ cpc = "call"
  /\ csettings \in CostCaseSettings \cup ColumnSettings \cup ScenarioSettings
  /\ csettings0 = csettings
  /\ cfirst = TNone
  /\ cerr = NoCheckError
  /\ cwarnings = <<>>
  /\ heap = <<>>
  /\ nxt = 0
  /\ MergeIdle
  /\ BuildIdle
  /\ TagsIdle
  /\ IdIdle
  /\ UtilIdle

CheckNext == CheckSettings \/ CheckSettingsAgain

CheckSpec == CheckInit /\ [][CheckNext]_vars

-----------------------------------------------------------------------------
(* Claims about check_settings.                                            *)

\* check_settings has been called and has ended
Checked == cpc \in {"returned", "raised"}

\* the call ended in check_atb_scenario
CostCaseCheckFailed == cerr.about \in {"ATB tech scenario", "atb_new_gen"}

\* generator_columns as given; nothing if the key is absent or None
Columns0 ==
  IF "generator_columns" \in DOMAIN csettings0.f
  THEN csettings0.f["generator_columns"].items
  ELSE <<>>

\* the entries that occur more than once
Repeated ==
  {Columns0[i] : i \in {i \in 1..Len(Columns0) :
                          \E j \in 1..Len(Columns0) :
                            j # i /\ Columns0[j] = Columns0[i]}}

\* C16: given that the cost case check did not fail, check_settings fails
\* with the KeyError about generator_columns if and only if some entry
\* occurs more than once in settings['generator_columns'], the error names
\* exactly the entries that occur more than once, each once, and an absent
\* generator_columns never raises it.
DuplicateColumns ==
  (Checked /\ ~CostCaseCheckFailed) =>
    /\ (cerr.kind = "KeyError" /\ cerr.about = "generator_columns")
         <=> Repeated # {}
    /\ Repeated # {} =>
         /\ Range(cerr.names) = Repeated
         /\ Len(cerr.names) = Cardinality(Repeated)
    /\ "generator_columns" \notin DOMAIN csettings0.f => cpc = "returned"

\* generator_columns [a, b, a] has raised the KeyError naming a
DuplicateColumnsWitness ==
  /\ cpc = "raised"
  /\ Columns0 = <<TStr("a"), TStr("b"), TStr("a")>>
  /\ cerr = [kind |-> "KeyError", about |-> "generator_columns",
             names |-> <<TStr("a")>>]

RECURSIVE Under(_, _)
\* the values stored under key k anywhere in the tree T
Under(T, k) ==
  IF T.t = "map"
  THEN (IF k \in DOMAIN T.f THEN {T.f[k]} ELSE {})
       \cup UNION {Under(T.f[j], k) : j \in DOMAIN T.f}
  ELSE IF T.t = "list"
  THEN UNION {Under(T.items[i], k) : i \in 1..Len(T.items)}
  ELSE {}

\* the labels the settings refer to: the third element of the entries of
\* the lists under atb_new_gen, and the values under atb_cost_case
Referenced ==
  {e.items[3] :
     e \in UNION {Range(l.items) :
                    l \in {x \in Under(csettings0, "atb_new_gen") :
                             x.t = "list"}}}
    \cup Under(csettings0, "atb_cost_case")

\* atb_data_year as given, 0 if it is not set
AtbYear0 ==
  IF "atb_data_year" \in DOMAIN csettings0.f
  THEN csettings0.f["atb_data_year"].n
  ELSE 0

\* the referenced labels that are no cost case of the ATB year
Unmatched ==
  {c \in Referenced :
     \A r \in technology_costs_nrelatb : r[1] = AtbYear0 => TStr(r[4]) # c}

\* C17: when atb_data_year is set the cost case check fails with a
\* KeyError if and only if a referenced label (the third element of an
\* entry of a list under a key atb_new_gen anywhere in the settings, or a
\* value under a key atb_cost_case anywhere) is no cost case of that ATB
\* year, and the error lists every distinct unmatched label; when
\* atb_data_year is not set no cost case check is made.
CostCaseCheck ==
  Checked =>
    IF AtbYear0 # 0
    THEN /\ (cerr.kind = "KeyError" /\ cerr.about = "ATB tech scenario")
              <=> Unmatched # {}
         /\ Unmatched # {} =>
              /\ Range(cerr.names) = Unmatched
              /\ Len(cerr.names) = Cardinality(Unmatched)
    ELSE ~CostCaseCheckFailed

\* no atb_new_gen key of the settings holds None
NewGenAreLists ==
  \A x \in Under(csettings0, "atb_new_gen") : x.t = "list"

\* the cost case check on settings whose atb_new_gen keys all hold lists
CostCaseCheckOfLists == NewGenAreLists => CostCaseCheck

\* the year configured under the key own, else under eia_aeo_year, else 0
YearOf(own) ==
  IF own \in DOMAIN csettings0.f THEN csettings0.f[own].n
  ELSE IF "eia_aeo_year" \in DOMAIN csettings0.f
  THEN csettings0.f["eia_aeo_year"].n
  ELSE 0

\* v is a reference scenario label without the year
LacksYear(v, year) == In("REF", v) /\ ~In(ToString(year), v)

\* what check_settings is to make of the label v: REF<year> if v has REF
\* without the year, v otherwise
Expected(v, year) ==
  IF LacksYear(v, year) THEN "REF" \o ToString(year) ELSE v

\* a warning about key k of eia_series_scenario_names, or about the value
\* k of growth_scenario, in call n
Warned(n, msg, k) ==
  \E i \in 1..Len(cwarnings) :
    cwarnings[i] = [run |-> n, msg |-> msg, key |-> k]

Names0 ==
  IF "eia_series_scenario_names" \in DOMAIN csettings0.f
  THEN csettings0.f["eia_series_scenario_names"].f
  ELSE <<>>

\* the labels of eia_series_scenario_names after check_settings
FuelLabels ==
  \A k \in DOMAIN Names0 :
    LET v0 == Names0[k].s
        v == csettings.f["eia_series_scenario_names"].f[k].s
        year == YearOf("fuel_eia_aeo_year")
    IN year # 0 =>
         /\ v = Expected(v0, year)
         /\ In("REF", v) => In(ToString(year), v)
         /\ LacksYear(v0, year) => Warned(1, "eia_series_scenario_names", k)

\* growth_scenario after check_settings
GrowthLabel ==
  "growth_scenario" \in DOMAIN csettings0.f =>
    LET v0 == csettings0.f["growth_scenario"].s
        v == csettings.f["growth_scenario"].s
        year == YearOf("load_eia_aeo_year")
    IN year # 0 =>
         /\ v = Expected(v0, year)
         /\ In("REF", v) => In(ToString(year), v)
         /\ LacksYear(v0, year) => Warned(1, "growth_scenario", v0)

\* C18: after check_settings has returned with a fuel data year configured
\* (fuel_eia_aeo_year, else eia_aeo_year) every value of
\* eia_series_scenario_names that contains REF contains that year, a value
\* that lacked it having been rewritten to REF<year> with a warning, and
\* the values without REF are unchanged; the same holds of growth_scenario
\* with load_eia_aeo_year, else eia_aeo_year; a second run of
\* check_settings on the result rewrites nothing.
ReferenceLabels ==
  /\ cpc \in {"returned", "again"} => FuelLabels /\ GrowthLabel
  /\ cpc = "again" =>
       /\ csettings = cfirst
       /\ \A i \in 1..Len(cwarnings) :
            cwarnings[i].run = 2 =>
              cwarnings[i].msg \notin
                {"eia_series_scenario_names", "growth_scenario"}

\* with eia_aeo_year 2020 and fuel_eia_aeo_year 2022 the label REF2020 has
\* become REF2022 and HIGHPRICE is as it was; with load_eia_aeo_year 2023
\* the growth scenario REF2022 has become REF2023; the second run is over
ReferenceLabelsWitness ==
  /\ cpc = "again"
  /\ YearOf("eia_aeo_year") = 2020
  /\ YearOf("fuel_eia_aeo_year") = 2022
  /\ YearOf("load_eia_aeo_year") = 2023
  /\ Names0 = ("reference" :> TStr("REF2020") @@ "high_price" :> TStr("HIGHPRICE"))
  /\ csettings.f["eia_series_scenario_names"].f =
       ("reference" :> TStr("REF2022") @@ "high_price" :> TStr("HIGHPRICE"))
  /\ "growth_scenario" \in DOMAIN csettings0.f
  /\ csettings0.f["growth_scenario"].s = "REF2022"
  /\ csettings.f["growth_scenario"].s = "REF2023"
  /\ Warned(1, "growth_scenario", "REF2022")

\* the label v is as it was given (v0) or is REF and the year configured
\* under own, else under eia_aeo_year
KeptOrReference(v, v0, own) ==
  \/ v = v0
  \/ /\ YearOf(own) # 0
     /\ v = TStr("REF" \o ToString(YearOf(own)))

\* the keys check_settings may write to
Rewritten == {"eia_series_scenario_names", "growth_scenario"}

\* the settings have the keys they were given, every key but the two
\* rewritten ones has its value, and the two have their labels or REF<year>
OnlyLabelsRewritten ==
  /\ csettings.t = csettings0.t
  /\ DOMAIN csettings.f = DOMAIN csettings0.f
  /\ \A k \in DOMAIN csettings0.f \ Rewritten :
       csettings.f[k] = csettings0.f[k]
  /\ "growth_scenario" \in DOMAIN csettings0.f =>
       KeptOrReference(csettings.f["growth_scenario"],
                       csettings0.f["growth_scenario"], "load_eia_aeo_year")
  /\ "eia_series_scenario_names" \in DOMAIN csettings0.f =>
       LET names == csettings.f["eia_series_scenario_names"]
       IN /\ names.t = "map"
          /\ DOMAIN names.f = DOMAIN Names0
          /\ \A k \in DOMAIN Names0 :
               KeptOrReference(names.f[k], Names0[k], "fuel_eia_aeo_year")

\* C30: after any call of check_settings, the first or the second, every
\* key of the settings other than eia_series_scenario_names and
\* growth_scenario has the value it was given and no key is added or
\* removed; those two hold the labels given or REF<year>; and when the call
\* has raised (cost case check or duplicate generator_columns) the settings
\* are the settings given, the labels included.
ChecksChangeLabelsOnly ==
  /\ cpc \in {"returned", "raised", "again", "raised again"} =>
       OnlyLabelsRewritten
  /\ cpc = "raised" => csettings = csettings0

\* generator_columns has a duplicate and the growth scenario REF2020 is not
\* of the data year 2022: the call has raised KeyError and the growth
\* scenario is REF2020 still
ChecksChangeLabelsOnlyWitness ==
  /\ cpc = "raised"
  /\ cerr.kind = "KeyError"
  /\ cerr.about = "generator_columns"
  /\ YearOf("load_eia_aeo_year") = 2022
  /\ "growth_scenario" \in DOMAIN csettings0.f
  /\ csettings0.f["growth_scenario"] = TStr("REF2020")
  /\ csettings.f["growth_scenario"] = TStr("REF2020")

-----------------------------------------------------------------------------
(* remove_leading_zero(id).  An id is an int or a string.                  *)

Digits == {"0", "1", "2", "3", "4", "5", "6", "7", "8", "9"}

\* str.isnumeric for the strings here: not empty and digits only
isnumeric(s) ==
  Len(s) > 0 /\ \A i \in 1..Len(s) : SubSeq(s, i, i) \in Digits

RECURSIVE lstrip(_, _)
\* s without its leading characters c
lstrip(s, c) ==
  IF Len(s) > 0 /\ SubSeq(s, 1, 1) = c
  THEN lstrip(SubSeq(s, 2, Len(s)), c)
  ELSE s

RECURSIVE rstrip(_, _)
\* s without its trailing characters c
rstrip(s, c) ==
  IF Len(s) > 0 /\ SubSeq(s, Len(s), Len(s)) = c
  THEN rstrip(SubSeq(s, 1, Len(s) - 1), c)
  ELSE s

\* str.strip(c) removes the character at both ends
strip(s, c) == rstrip(lstrip(s, c), c)

remove_leading_zero(v) ==
  IF v.t = "int" THEN v
  ELSE IF isnumeric(v.s) THEN VStr(strip(v.s, "0"))
  ELSE v

RemoveLeadingZero ==
  /\ rpc = "call"
  /\ rid' = remove_leading_zero(id)
  /\ rpc' = "done"
  /\ UNCHANGED <<id, mergeVars, buildVars, tagVars, checkVars, utilVars>>

MaxIdLen == 4

\* the characters of the ids: two digits and a letter
IdChars == {"0", "1", "G"}

RECURSIVE IdStrings(_)
\* the strings of at most n characters
IdStrings(n) ==
  IF n = 0 THEN {""}
  ELSE IdStrings(n - 1)
       \cup {s \o c : s \in IdStrings(n - 1), c \in IdChars}

IdInit ==
  /\ rpc = "call"
  /\ id \in {VInt(n) : n \in 0..MaxInt}
            \cup {VStr(s) : s \in IdStrings(MaxIdLen)}
  /\ rid = VNone
  /\ heap = <<>>
  /\ nxt = 0
  /\ MergeIdle
  /\ BuildIdle
  /\ TagsIdle
  /\ CheckIdle
  /\ UtilIdle

IdNext == RemoveLeadingZero

IdSpec == IdInit /\ [][IdNext]_vars

-----------------------------------------------------------------------------
(* Claims about remove_leading_zero.                                       *)

\* the number a string of digits stands for
RECURSIVE IntegerValue(_)
IntegerValue(s) ==
  IF Len(s) = 0 THEN 0
  ELSE 10 * IntegerValue(SubSeq(s, 1, Len(s) - 1))
       + (CHOOSE d \in 0..9 : ToString(d) = SubSeq(s, Len(s), Len(s)))

\* C20: remove_leading_zero returns an integer id unchanged, a non-numeric
\* string id unchanged, and for a string made only of digits the same
\* digits with only the leading zeros removed, so that the integer value
\* of the id is preserved.
LeadingZerosOnly ==
  rpc = "done" =>
    IF id.t = "int" \/ ~isnumeric(id.s) THEN rid = id
    ELSE /\ rid.t = "str"
         /\ \E k \in 0..Len(id.s) :
              /\ \A i \in 1..k : SubSeq(id.s, i, i) = "0"
              /\ rid.s = SubSeq(id.s, k + 1, Len(id.s))
              /\ (rid.s = "" \/ SubSeq(rid.s, 1, 1) # "0")
         /\ IntegerValue(rid.s) = IntegerValue(id.s)

\* the part of it the test has: ids without a trailing zero
LeadingZerosOfOthers ==
  (id.t = "str" /\ Len(id.s) > 0 /\ SubSeq(id.s, Len(id.s), Len(id.s)) = "0")
    \/ LeadingZerosOnly

-----------------------------------------------------------------------------
(* find_region_col(cols, context).                                         *)

UpperCase == "ABCDEFGHIJKLMNOPQRSTUVWXYZ"
LowerCase == "abcdefghijklmnopqrstuvwxyz"

\* the string as it is, with no change of case
SameCase(s) == s

RECURSIVE Lowercase(_)
\* str.lower(), character by character
Lowercase(s) ==
  IF Len(s) = 0 THEN ""
  ELSE LET c == SubSeq(s, 1, 1)
           up == {i \in 1..26 : SubSeq(UpperCase, i, i) = c}
       IN (IF up = {} THEN c
           ELSE LET i == CHOOSE j \in up : TRUE IN SubSeq(LowerCase, i, i))
          \o Lowercase(SubSeq(s, 2, Len(s)))

\* what find_region_col returns or raises
find_region_col(cols) ==
  LET region_col == SelectSeq(cols, LAMBDA c : In("region", Lowercase(c)))
  IN IF Len(region_col) > 1
     THEN [kind |-> "ValueError", value |-> "more than one column"]
     ELSE IF Len(region_col) = 0
     THEN [kind |-> "ValueError", value |-> "No columns"]
     ELSE [kind |-> "", value |-> region_col[1]]

FindRegionCol ==
  /\ upc = "call"
  /\ uout' = find_region_col(ucur)
  /\ upc' = IF uout'.kind = "" THEN "returned" ELSE "raised"
  /\ UNCHANGED <<uarg, ucur, ulog, mergeVars, buildVars, tagVars, checkVars,
               idVars>>

MaxCols == 3

\* column names with and without the string region, in any case
ColumnNames == {"A", "C", "Region", "model_region", "region", "REGION"}

ColsInit ==
  /\ upc = "call"
  /\ uarg \in SeqsUpTo(ColumnNames, MaxCols)
  /\ ucur = uarg
  /\ uout = <<>>
  /\ ulog = <<>>
  /\ heap = <<>>
  /\ nxt = 0
  /\ MergeIdle
  /\ BuildIdle
  /\ TagsIdle
  /\ CheckIdle
  /\ IdIdle

ColsNext == FindRegionCol

ColsSpec == ColsInit /\ [][ColsNext]_vars

\* the positions of the columns whose name contains region in some case
RegionColumns ==
  {i \in 1..Len(uarg) :
     uarg[i] \in {"Region", "model_region", "region", "REGION"}}

\* C21: find_region_col returns the name of the one column whose name
\* contains 'region' case-insensitively when exactly one such column
\* exists, and raises ValueError when no column or more than one column
\* contains 'region'.
OneRegionColumn ==
  upc \in {"returned", "raised"} =>
    IF Cardinality(RegionColumns) = 1
    THEN /\ upc = "returned"
         /\ \A i \in RegionColumns : uout = [kind |-> "", value |-> uarg[i]]
    ELSE upc = "raised" /\ uout.kind = "ValueError"

\* the columns A, Region, C of the test gave Region
OneRegionColumnWitness ==
  /\ upc = "returned"
  /\ uarg = <<"A", "Region", "C">>
  /\ uout.value = "Region"

-----------------------------------------------------------------------------
(* regions_to_keep(model_regions, region_aggregations).  A dict is the     *)
(* sequence of its <<key, value>> pairs in insertion order, or None.       *)

\* d[k] = v on a dict kept as a sequence of pairs: a key that is there
\* keeps its place
PutPair(d, k, v) ==
  IF \E i \in 1..Len(d) : d[i][1] = k
  THEN [i \in 1..Len(d) |-> IF d[i][1] = k THEN <<k, v>> ELSE d[i]]
  ELSE Append(d, <<k, v>>)

\* rev = {v: k for k in d for v in d[k]}, or {} if d is no mapping
reverse_dict_of_lists(d) ==
  LET RECURSIVE Members(_, _, _)
      Members(rev, k, vs) ==
        IF vs = <<>> THEN rev
        ELSE Members(PutPair(rev, Head(vs), k), k, Tail(vs))
      RECURSIVE Keys(_, _)
      Keys(rev, items) ==
        IF items = <<>> THEN rev
        ELSE Keys(Members(rev, Head(items)[1], Head(items)[2]), Tail(items))
  IN IF d.kind = "map" THEN Keys(<<>>, d.items) ELSE <<>>

\* the pair <<keep_regions, region_agg_map>>
regions_to_keep(regions, region_aggregations) ==
  LET region_agg_map == reverse_dict_of_lists(region_aggregations)
      keys == [i \in 1..Len(region_agg_map) |-> region_agg_map[i][1]]
      vals == {region_agg_map[i][2] : i \in 1..Len(region_agg_map)}
      keep_regions == SelectSeq(regions \o keys, LAMBDA x : x \notin vals)
  IN <<keep_regions, region_agg_map>>

RegionsToKeep ==
  /\ upc = "call"
  /\ uout' = regions_to_keep(ucur[1], ucur[2])
  /\ upc' = "returned"
  /\ UNCHANGED <<uarg, ucur, ulog, mergeVars, buildVars, tagVars, checkVars,
               idVars>>

MaxMembers == 2

IpmRegions == {"CA", "TX", "NY"}

AggregateNames == <<"East", "West">>

\* a dict with some of the aggregate names, each with one to MaxMembers
\* IPM regions (a region may be in both aggregations)
Aggregations ==
  LET lists == SeqsUpTo(IpmRegions, MaxMembers) \ {<<>>}
      one(a) == {<<>>} \cup {<< <<a, l>> >> : l \in lists}
  IN {[kind |-> "none", items |-> <<>>]}
     \cup {[kind |-> "map", items |-> e \o w] :
             e \in one(AggregateNames[1]), w \in one(AggregateNames[2])}

KeepInit ==
  /\ upc = "call"
  /\ uarg \in SeqsUpTo(IpmRegions \cup Range(AggregateNames), MaxRegions)
                \X Aggregations
  /\ ucur = uarg
  /\ uout = <<>>
  /\ ulog = <<>>
  /\ heap = <<>>
  /\ nxt = 0
  /\ MergeIdle
  /\ BuildIdle
  /\ TagsIdle
  /\ CheckIdle
  /\ IdIdle

KeepNext == RegionsToKeep

KeepSpec == KeepInit /\ [][KeepNext]_vars

\* the aggregations the user defined: name and members
Defined == Range(uarg[2].items)

\* the IPM regions used in the model: a model region that is no aggregate
\* name, or a member of an aggregation
UsedIpmRegions ==
  (Range(uarg[1]) \ {a[1] : a \in Defined})
    \cup UNION {Range(a[2]) : a \in Defined}

\* the list contains every IPM region used in the model
KeepsUsedRegions ==
  upc = "returned" => UsedIpmRegions \subseteq Range(uout[1])

\* the second result maps each aggregated base region to an aggregate
\* region that has it
MapsToAggregate ==
  upc = "returned" =>
    /\ {p[1] : p \in Range(uout[2])} = UNION {Range(a[2]) : a \in Defined}
    /\ \A p \in Range(uout[2]) :
         \E a \in Defined : a[1] = p[2] /\ p[1] \in Range(a[2])

\* C22: regions_to_keep returns a list that contains every IPM region used
\* in the model, as a single model region or as a member of a user-defined
\* aggregation, and that also includes the aggregate region names defined
\* by the user; its second result maps each aggregated base region to its
\* aggregate region.
KeepsAggregateNames ==
  /\ KeepsUsedRegions
  /\ upc = "returned" => {a[1] : a \in Defined} \subseteq Range(uout[1])
  /\ MapsToAggregate

-----------------------------------------------------------------------------
(* fix_param_names(settings).  The settings are a tree; the function       *)
(* changes the caller's dict and returns it.                               *)

\* the legacy names and the current ones, in the order of the dict
fix_params ==
  << <<"historical_load_region_maps", "historical_load_region_map">>,
     <<"demand_response_resources", "flexible_demand_resources">>,
     <<"data_years", "eia_data_years">> >>

\* a value under the current name is not replaced
fix_param_names_keep_current(settings) ==
  LET RECURSIVE Fix(_, _)
      Fix(st, i) ==
        IF i > Len(fix_params) THEN st
        ELSE LET k == fix_params[i][1]
                 v == fix_params[i][2]
             IN IF k \in DOMAIN st.settings.f
                THEN Fix([settings |-> TMap(st.settings.f @@ v :> st.settings.f[k]),
                          warned |-> Append(st.warned, k)], i + 1)
                ELSE Fix(st, i + 1)
  IN Fix([settings |-> settings, warned |-> <<>>], 1)

\* the settings after the loop and the legacy names warned about
fix_param_names(settings) ==
  LET RECURSIVE Fix(_, _)
      Fix(st, i) ==
        IF i > Len(fix_params) THEN st
        ELSE LET k == fix_params[i][1]
                 v == fix_params[i][2]
             IN IF k \in DOMAIN st.settings.f
                THEN Fix([settings |-> TMap(v :> st.settings.f[k] @@ st.settings.f),
                          warned |-> Append(st.warned, k)], i + 1)
                ELSE Fix(st, i + 1)
  IN Fix([settings |-> settings, warned |-> <<>>], 1)

\* settings = fix_param_names(settings)
FixParamNames ==
  /\ upc = "call"
  /\ \E r \in {fix_param_names(ucur)} :
       /\ ucur' = r.settings
       /\ uout' = r.settings
       /\ ulog' = Run(1, [i \in 1..Len(r.warned) |->
                            [msg |-> "has been changed", key |-> r.warned[i]]])
  /\ upc' = "returned"
  /\ UNCHANGED <<uarg, mergeVars, buildVars, tagVars, checkVars, idVars>>

\* the same call on the settings the first call returned
FixParamNamesAgain ==
  /\ upc = "returned"
  /\ \E r \in {fix_param_names(ucur)} :
       /\ ucur' = r.settings
       /\ ulog' = ulog \o
                    Run(2, [i \in 1..Len(r.warned) |->
                              [msg |-> "has been changed", key |-> r.warned[i]]])
  /\ upc' = "again"
  /\ UNCHANGED <<uarg, uout, mergeVars, buildVars, tagVars, checkVars, idVars>>

\* settings with any of the legacy names (value "legacy", or a dict for
\* the region maps) and any of the current names (value "current"), and a
\* key that has nothing to do with them
NamedSettings ==
  {TMap(a @@ b @@ c @@ d @@ e @@ f @@ "model_regions" :> TList(<<TStr("CA")>>)) :
     a \in Optional("historical_load_region_maps",
                    {TMap("WECC" :> TList(<<TStr("CA")>>))}),
     b \in Optional("historical_load_region_map", {TMap(<<>>)}),
     c \in Optional("demand_response_resources", {TStr("legacy")}),
     d \in Optional("flexible_demand_resources", {TStr("current")}),
     e \in Optional("data_years", {TList(<<TInt(2020)>>)}),
     f \in Optional("eia_data_years", {TList(<<TInt(2021)>>), TNone})}

NamesInit ==
  /\ upc = "call"
  /\ uarg \in NamedSettings
  /\ ucur = uarg
  /\ uout = <<>>
  /\ ulog = <<>>
  /\ heap = <<>>
  /\ nxt = 0
  /\ MergeIdle
  /\ BuildIdle
  /\ TagsIdle
  /\ CheckIdle
  /\ IdIdle

NamesNext == FixParamNames \/ FixParamNamesAgain

NamesSpec == NamesInit /\ [][NamesNext]_vars

\* the legacy names with their current names
Renamed ==
  {<<"historical_load_region_maps", "historical_load_region_map">>,
   <<"demand_response_resources", "flexible_demand_resources">>,
   <<"data_years", "eia_data_years">>}

\* C27: for each legacy parameter name present in the settings the result
\* holds the legacy key's value under the current name, and one warning is
\* logged per legacy name found; a value already stored under the current
\* name is kept when the legacy name is absent; all other keys are
\* unchanged, and applying fix_param_names twice gives the same settings as
\* applying it once.
LegacyNames ==
  /\ upc \in {"returned", "again"} =>
       /\ \A p \in Renamed :
            IF p[1] \in DOMAIN uarg.f
            THEN /\ p[2] \in DOMAIN uout.f
                 /\ uout.f[p[2]] = uarg.f[p[1]]
                 /\ Cardinality({i \in 1..Len(ulog) :
                                   ulog[i].run = 1 /\ ulog[i].key = p[1]}) = 1
            ELSE /\ p[2] \in DOMAIN uout.f <=> p[2] \in DOMAIN uarg.f
                 /\ p[2] \in DOMAIN uarg.f => uout.f[p[2]] = uarg.f[p[2]]
                 /\ \A i \in 1..Len(ulog) : ulog[i].key # p[1]
       /\ \A k \in (DOMAIN uarg.f \cup DOMAIN uout.f) \ {p[2] : p \in Renamed} :
            /\ k \in DOMAIN uarg.f
            /\ k \in DOMAIN uout.f
            /\ uout.f[k] = uarg.f[k]
  /\ upc = "again" => ucur = uout

\* data_years was given beside eia_data_years and a current
\* flexible_demand_resources without its legacy name; the result has the
\* legacy years under eia_data_years, and the second call is over
LegacyNamesWitness ==
  /\ upc = "again"
  /\ "data_years" \in DOMAIN uarg.f
  /\ "eia_data_years" \in DOMAIN uarg.f
  /\ uarg.f["eia_data_years"] # uarg.f["data_years"]
  /\ ucur.f["eia_data_years"] = uarg.f["data_years"]
  /\ "demand_response_resources" \notin DOMAIN uarg.f
  /\ "flexible_demand_resources" \in DOMAIN ucur.f
  /\ ucur.f["flexible_demand_resources"] = TStr("current")

-----------------------------------------------------------------------------
(* load_settings (after the YAML is read) and write_case_settings_file.    *)
(* A pathlib.Path is a tree node of its own type; the file written is the  *)
(* tree of the YAML nodes.                                                 *)

TPath(s) == [t |-> "path", n |-> 0, s |-> s, f |-> <<>>, items |-> <<>>]

\* the folder of the settings file
parent == "/home/user/project"

\* lines 93-104 on a system that is not Windows
sqlalchemy_prefix(db_path) ==
  IF In("sqlite:////", db_path.s) THEN db_path
  ELSE TStr("sqlite:////" \o db_path.s)

\* lines 57-74: the settings are changed in place and returned.  The
\* settings here have no renewables_clusters, so that
\* apply_all_tag_to_regions has no entry to scan and changes nothing.
load_settings(settings) ==
  LET folder ==
        IF bool(get(settings, "input_folder", TNone))
        THEN "input_folder" :> TPath(parent \o "/" \o settings.f["input_folder"].s)
        ELSE <<>>
      dbs ==
        [k \in {k \in {"PUDL_DB", "PG_DB"} : bool(get(settings, k, TNone))}
           |-> sqlalchemy_prefix(settings.f[k])]
      paths ==
        [k \in {k \in {"EFS_DATA", "RESOURCE_GROUPS", "DISTRIBUTED_GEN_DATA",
                       "RESOURCE_GROUP_PROFILES"} :
                  bool(get(settings, k, TNone))}
           |-> TPath(settings.f[k].s)]
  IN fix_param_names(TMap(folder @@ dbs @@ paths @@ settings.f))

RECURSIVE represent(_)
\* yaml.dump of PyYAML with its default Dumper: a str is a plain scalar, a
\* dict a mapping, a list a sequence, and an object of any other class,
\* such as a Path, a node tagged with the class that rebuilds it
represent(T) ==
  CASE T.t = "map" -> TMap([k \in DOMAIN T.f |-> represent(T.f[k])])
    [] T.t = "list" ->
         TList([i \in 1..Len(T.items) |-> represent(T.items[i])])
    [] T.t = "path" ->
         [t |-> "!!python/object/apply:pathlib.PosixPath", n |-> 0,
          s |-> T.s, f |-> <<>>, items |-> <<>>]
    [] OTHER -> T

\* lines 707-714: the file written; the settings themselves are untouched
write_case_settings_file(settings) ==
  LET _settings == settings
  IN represent(_settings)

\* settings = load_settings(path)
LoadSettings ==
  /\ upc = "call"
  /\ \E r \in {load_settings(ucur)} :
       /\ ucur' = r.settings
       /\ ulog' = Run(1, [i \in 1..Len(r.warned) |->
                            [msg |-> "has been changed", key |-> r.warned[i]]])
  /\ upc' = "loaded"
  /\ UNCHANGED <<uarg, uout, mergeVars, buildVars, tagVars, checkVars, idVars>>

\* write_case_settings_file(settings, folder, file_name)
WriteCaseSettingsFile ==
  /\ upc = "loaded"
  /\ uout' = write_case_settings_file(ucur)
  /\ upc' = "returned"
  /\ UNCHANGED <<uarg, ucur, ulog, mergeVars, buildVars, tagVars, checkVars,
               idVars>>

\* the settings as read from the YAML file: strings only
FileSettings ==
  {TMap(a @@ b @@ c @@ d @@ e @@ f @@ g
        @@ "model_regions" :> TList(<<TStr("CA")>>)) :
     a \in Optional("input_folder", {TStr(""), TStr("extra_inputs")}),
     b \in Optional("PG_DB", {TStr("pg.sqlite"), TStr("sqlite:////pg.sqlite")}),
     c \in Optional("EFS_DATA", {TStr("/data/efs")}),
     d \in Optional("RESOURCE_GROUPS", {TStr("/data/groups")}),
     e \in Optional("DISTRIBUTED_GEN_DATA", {TStr("/data/dg"), TNone}),
     f \in Optional("RESOURCE_GROUP_PROFILES", {TStr("/data/profiles")}),
     g \in Optional("data_years", {TList(<<TInt(2020)>>)})}

WriteInit ==
  /\ upc = "call"
  /\ uarg \in FileSettings
  /\ ucur = uarg
  /\ uout = <<>>
  /\ ulog = <<>>
  /\ heap = <<>>
  /\ nxt = 0
  /\ MergeIdle
  /\ BuildIdle
  /\ TagsIdle
  /\ CheckIdle
  /\ IdIdle

WriteNext == LoadSettings \/ WriteCaseSettingsFile

WriteSpec == WriteInit /\ [][WriteNext]_vars

\* the keys of the loaded settings that hold a Path
PathKeys == {k \in DOMAIN ucur.f : ucur.f[k].t = "path"}

\* the caller's settings are after the write what load_settings made them
SettingsKept ==
  upc = "returned" => ucur = load_settings(uarg).settings

\* C23: when settings are written with write_case_settings_file every
\* field that holds a filesystem path, such as input_folder and
\* RESOURCE_GROUPS as load_settings sets them, is written as a plain
\* string, and the caller's settings object is not modified by the write.
PathsAsStrings ==
  upc = "returned" =>
    /\ \A k \in PathKeys : uout.f[k] = TStr(ucur.f[k].s)
    /\ ucur = load_settings(uarg).settings

====
